---- MODULE Spec2Model ----
(***************************************************************************)
(* Model of the OPGL gateway service: the API-key rate limiter            *)
(* (ratelimit.RateLimiter over repository.PostgresAPIKeyRepository and    *)
(* middleware.RateLimitMiddleware), the JWT token service                 *)
(* (auth.AuthService), the analysis pipeline (api.Handler) and the router *)
(* (api.SetupRouter).                                                      *)
(*                                                                         *)
(* The specifications share the module; each leaves the variables of the  *)
(* other components unchanged:                                             *)
(*   Spec          rate limiter, key store, rate-limit middleware, admin   *)
(*   SpecAuth      token issue and validation                              *)
(*   SpecAnalyze   the AnalyzePlayer handler against its downstream calls  *)
(*   SpecAbandon   one analyze request that its caller may abandon         *)
(*   SpecProxy     the ServiceProxy operations on their own                *)
(*   SpecRegister  concurrent register requests                            *)
(*   SpecAccounts  register, login, refresh and me, one at a time          *)
(*   SpecWindow    the rate-limit window computation                       *)
(*   SpecData      the GetSummoner, GetMatches and AnalyzePlayer handlers  *)
(*   SpecOptional  the key store behind OptionalRateLimitMiddleware        *)
(*   SpecKeys      rate-limited traffic on two keys                        *)
(*   SpecRouter    the router in front of the middleware and the handlers  *)
(*   SpecAnalyzeLive  SpecAnalyze with every downstream call returning     *)
(***************************************************************************)
EXTENDS Integers, Sequences, FiniteSets, TLC

\* ------------------------------------------------------------------ bounds
\* concurrent requests passing through the rate-limit middleware
MaxProcs == 2
\* requests the model lets arrive at the middleware in one behaviour
MaxRequests == 3
\* last second of the wall clock the model lets time reach
MaxTime == 2
\* clock ticks per second: the token service reads a sub-second wall clock
TicksPerSecond == 2
\* last tick the token service's clock reaches
MaxTicks == 5
\* token pairs issued in one behaviour
MaxPairs == 1
\* the configured token lifetimes (JWT_ACCESS_EXPIRY, JWT_REFRESH_EXPIRY), in ticks
AccessTokenTTL == 2
RefreshTokenTTL == 4
\* concurrent requests to the analyze endpoint
MaxAnalyze == 2
\* concurrent requests to the register endpoint
MaxHandlers == 2
\* check times (seconds since the epoch) and window lengths (seconds) for
\* which the window computation is tabulated
MaxUnix == 24
MaxWindowSeconds == 5

Procs == 1..MaxProcs
AProcs == 1..MaxAnalyze
Handlers == 1..MaxHandlers

\* ------------------------------------------------------- program constants
DefaultRateLimit == 100
DefaultRateWindowSeconds == 60
StatusUnauthorized == 401
StatusTooManyRequests == 429
StatusInternalServerError == 500
StatusOK == 200
StatusBadRequest == 400
StatusNotFound == 404
StatusCreated == 201
StatusConflict == 409
MinPasswordLen == 8
MatchCount == 20

\* raw API keys: the i-th key that crypto/rand produces for CreateAPIKey; a
\* caller may send any of them in X-API-Key, "" being the absent header
GeneratedKeys == <<"ka">>
RawKeys == {"ka", "kb"}
\* api_keys.id: the i-th row created gets id i (gen_random_uuid() is fresh)
KeyIDs == 1..Len(GeneratedKeys)
\* CreateAPIKey request bodies: one that is not JSON, and decoded requests
\* (name, rateLimit, rateWindowSeconds); "" and 0 are absent fields
CreateBodies ==
  {[json |-> FALSE, name |-> "", rateLimit |-> 0, rateWindowSeconds |-> 0]}
  \cup {[json |-> TRUE, name |-> n, rateLimit |-> c[1], rateWindowSeconds |-> c[2]] :
          n \in {"", "svc"}, c \in {<<-1, -1>>, <<0, 0>>, <<2, 2>>}}

Nil == [nil |-> TRUE]

\* account identifiers (uuid.UUID values)
UserIDs == {"u1", "u2"}
TokenTypes == {"access", "refresh"}
\* AuthService.jwtSecret, and a key the service does not hold
JwtSecret == "secret"
OtherSecret == "forged"

VARIABLES
  now,               \* wall clock, whole seconds since the epoch (time.Now().Unix())
  apiKeys,           \* table api_keys: id -> row
  rateLimitRecords,  \* table rate_limit_records: <<api_key_id, window_start>> -> request_count
  lastUsedJobs,      \* key ids with a detached UpdateLastUsed goroutine not yet run
  req,               \* per request: position in RateLimitMiddleware / CheckRateLimit and its locals
  hist,              \* per <<key, window>>: the counts returned by IncrementRequestCount, in order
  started,           \* requests that have arrived so far
  tally,             \* per <<key, window>>: how many CheckRateLimit calls found the key
                     \* active and computed that window, how many of them failed at the
                     \* increment, how many returned Allowed = true
  createResp,        \* admin endpoint: the response AdminHandler.CreateAPIKey wrote in the
                     \* step just taken with its request, Nil after any other step
  clock,             \* token service: wall clock in ticks (time.Now())
  pairs,             \* token service: the TokenPairs issued, each with its subject and issue ticks
  lastVal,           \* token service: the last validateToken call and what it returned
  an,                \* analyze endpoint: per request, its position in Handler.AnalyzePlayer,
                     \* its locals, the downstream calls and returns so far, the responses written
  users,             \* table users: id -> row
  reg,               \* per register request between its GetByEmail and its Create: the
                     \* decoded body, Nil when the handler is not at that point
  resp,              \* auth endpoints: the response written by the step just taken with the
                     \* request it answers, Nil when the step wrote none
  win,               \* the last window computation of CheckRateLimit: time, window length,
                     \* window start and reset time
  px,                \* the last ServiceProxy invocation: the operation, what the
                     \* downstream service answers to a first and to a second request,
                     \* the requests sent and the (value, error) pair returned
  rt                 \* the router: the configuration SetupRouter was called with and,
                     \* per request, the handler its method and path were matched to

\* the variables of each component
rlVars == <<now, apiKeys, rateLimitRecords, lastUsedJobs, req, hist, started,
           tally, createResp>>
authVars == <<clock, pairs, lastVal>>
anVars == <<an>>
acctVars == <<users, reg, resp>>
winVars == <<win>>
proxyVars == <<px>>
routerVars == <<rt>>

\* ---------------------------------------------------------------- helpers
\* apierrors.WriteError: the status and the JSON error body {code, message}
WriteError(code, message, status) ==
  [status |-> status, code |-> code, message |-> message, body |-> Nil]

InvalidRequestBody(message) == WriteError("INVALID_REQUEST_BODY", message, StatusBadRequest)
ValidationFailed(message) == WriteError("VALIDATION_FAILED", message, StatusBadRequest)
InternalError(message) == WriteError("INTERNAL_ERROR", message, StatusInternalServerError)

\* a success response: the status and the encoded response struct
WriteJSON(status, body) ==
  [status |-> status, code |-> "", message |-> "", body |-> body]

\* repository.HashAPIKey: hex SHA-256 digest; one-way and collision free on RawKeys
HashAPIKey(apiKey) == <<"sha256", apiKey>>

\* a window start rounded up to the next boundary
calculateWindowStart_RoundUp(currentUnix, windowSeconds) ==
  ((currentUnix + windowSeconds - 1) \div windowSeconds) * windowSeconds

\* a window that starts at the request's own second
calculateWindowStart_Sliding(currentUnix, windowSeconds) == currentUnix

\* RateLimiter.calculateWindowStart (Go integer division; times are >= 0)
calculateWindowStart(currentUnix, windowSeconds) ==
  (currentUnix \div windowSeconds) * windowSeconds

\* CheckRateLimit line 54: resetTime := windowStart.Add(windowDuration)
ResetTime(windowStart, windowSeconds) == windowStart + windowSeconds

\* GetByKeyHash without the is_active filter
GetByKeyHash_AnyRow(keyHash) ==
  LET hit == {id \in DOMAIN apiKeys : apiKeys[id].KeyHash = keyHash}
  IN IF hit = {} THEN Nil
     ELSE LET id == CHOOSE i \in hit : TRUE
          IN [ID |-> id,
              RateLimit |-> apiKeys[id].RateLimit,
              RateWindowSeconds |-> apiKeys[id].RateWindowSeconds]

\* GetByKeyHash: WHERE key_hash = $1 AND is_active = true; Nil for sql.ErrNoRows
GetByKeyHash(keyHash) ==
  LET hit == {id \in DOMAIN apiKeys :
                apiKeys[id].KeyHash = keyHash /\ apiKeys[id].IsActive}
  IN IF hit = {} THEN Nil
     ELSE LET id == CHOOSE i \in hit : TRUE
          IN [ID |-> id,
              RateLimit |-> apiKeys[id].RateLimit,
              RateWindowSeconds |-> apiKeys[id].RateWindowSeconds]

\* an upsert that carries the key's previous window over into a new one
UpsertCount_CarryOver(records, key) ==
  LET earlier == {k \in DOMAIN records : k[1] = key[1]}
  IN IF key \in DOMAIN records THEN records[key] + 1
     ELSE IF earlier = {} THEN 1
     ELSE records[CHOOSE k \in earlier : TRUE] + 1

\* an upsert whose conflict branch leaves the row as it is (DO NOTHING)
UpsertCount_NoUpdate(records, key) ==
  IF key \in DOMAIN records THEN records[key] ELSE 1

\* an upsert on a counter that is kept per window, whatever the key
UpsertCount_PerWindow(records, key) ==
  LET same == {k \in DOMAIN records : k[2] = key[2]}
  IN IF same = {} THEN 1 ELSE records[CHOOSE k \in same : TRUE] + 1

\* an upsert whose insert branch starts the row at zero
UpsertCount_FromZero(records, key) ==
  IF key \in DOMAIN records THEN records[key] + 1 ELSE 0

\* the upsert of IncrementRequestCount: the row's request_count after the statement
UpsertCount(records, key) ==
  IF key \in DOMAIN records THEN records[key] + 1 ELSE 1

\* allowed with a strict comparison
Allowed_Strict(requestCount, rateLimit) == requestCount < rateLimit

\* allowed up to one request past the limit
Allowed_OnePast(requestCount, rateLimit) == requestCount <= rateLimit + 1

\* CheckRateLimit lines 67-72: allowed and remaining from the new count
Allowed(requestCount, rateLimit) == requestCount <= rateLimit

\* remaining without the clamp at zero
Remaining_Unclamped(requestCount, rateLimit) == rateLimit - requestCount

Remaining(requestCount, rateLimit) ==
  IF rateLimit - requestCount < 0 THEN 0 ELSE rateLimit - requestCount

IdleReq ==
  [pc |-> "idle", apiKey |-> "", rec |-> Nil, windowStart |-> 0,
   err |-> FALSE, result |-> Nil, ordinal |-> 0, activeAtIncrement |-> FALSE,
   checked |-> FALSE, status |-> 0, code |-> "", retryAfter |-> -1,
   served |-> FALSE, fault |-> "none", optional |-> FALSE]

\* a <<key, window>> no CheckRateLimit call has computed yet
NoTally == [found |-> 0, failed |-> 0, admitted |-> 0]

TallyOf(key) == IF key \in DOMAIN tally THEN tally[key] ELSE NoTally

\* the tally with one entry replaced
Tallied(key, entry) ==
  [k \in DOMAIN tally \cup {key} |-> IF k = key THEN entry ELSE tally[k]]

\* ------------------------------------------------------------------- Init
InitRL ==
  /\ now = 0
  /\ apiKeys = << >>
  /\ rateLimitRecords = << >>
  /\ lastUsedJobs = {}
  /\ req = [p \in Procs |-> IdleReq]
  /\ hist = << >>
  /\ started = 0
  /\ tally = << >>
  /\ createResp = Nil

\* ------------------------------------------------- admin key management
\* CreateAPIKey lines 70-73 without the default
EffectiveRateLimit_NoDefault(requested) == requested

\* CreateAPIKey lines 70-73: the default for a non-positive rateLimit
EffectiveRateLimit(requested) ==
  IF requested <= 0 THEN DefaultRateLimit ELSE requested

\* CreateAPIKey lines 75-78 without the default
EffectiveRateWindow_NoDefault(requested) == requested

\* CreateAPIKey lines 75-78: the default for a non-positive rateWindowSeconds
EffectiveRateWindow(requested) ==
  IF requested <= 0 THEN DefaultRateWindowSeconds ELSE requested

\* CreateAPIKeyResponse: the only place the plaintext key is shown
CreateAPIKeyResponse(id, apiKey, row) ==
  [id |-> id, apiKey |-> apiKey, name |-> row.Name, rateLimit |-> row.RateLimit,
   rateWindowSeconds |-> row.RateWindowSeconds]

\* AdminHandler.CreateAPIKey: the body decoded, the name required, defaults
\* for non-positive values, a fresh random key, its digest stored by
\* repository.Create (is_active defaults to true), the 201 answer; create
\* requests arrive while the key supply lasts, and those that are refused
\* or fail, which read and write no state, before the first gateway request
CreateAPIKey(body, randError, storageError) ==
  /\ UNCHANGED <<authVars, anVars, acctVars, winVars, proxyVars, routerVars>>
  /\ Cardinality(DOMAIN apiKeys) < Len(GeneratedKeys)
  /\ (randError \/ storageError) => (body.json /\ body.name # "")
  /\ ~(randError /\ storageError)
  /\ LET id == Cardinality(DOMAIN apiKeys) + 1
         apiKey == GeneratedKeys[id]
         row == [Name |-> body.name,
                 KeyHash |-> HashAPIKey(apiKey),
                 RateLimit |-> EffectiveRateLimit(body.rateLimit),
                 RateWindowSeconds |-> EffectiveRateWindow(body.rateWindowSeconds),
                 IsActive |-> TRUE,
                 LastUsedAt |-> [Valid |-> FALSE, Time |-> 0]]
         written ==
           IF ~body.json THEN InvalidRequestBody("Invalid JSON format")
           ELSE IF body.name = "" THEN ValidationFailed("name is required")
           ELSE IF randError THEN InternalError("Failed to generate API key")
           ELSE IF storageError THEN InternalError("Failed to create API key")
           ELSE WriteJSON(StatusCreated, CreateAPIKeyResponse(id, apiKey, row))
     IN /\ written.status # StatusCreated => started = 0
        /\ apiKeys' = IF written.status = StatusCreated
                         THEN apiKeys @@ (id :> row) ELSE apiKeys
        /\ createResp' = [input |-> body, fault |-> randError \/ storageError,
                          status |-> written.status, code |-> written.code,
                          message |-> written.message, body |-> written.body]
  /\ UNCHANGED <<now, rateLimitRecords, lastUsedJobs, req, hist, started, tally>>

\* a delete that flips is_active
Deactivated_Toggle(row) == [row EXCEPT !.IsActive = ~@]

\* the row update of repository.Delete: is_active = false
Deactivated(row) == [row EXCEPT !.IsActive = FALSE]

\* AdminHandler.DeleteAPIKey -> repository.Delete (UPDATE ... WHERE id = $1)
DeleteAPIKey(id) ==
  /\ UNCHANGED <<authVars, anVars, acctVars, winVars, proxyVars, routerVars>>
  /\ id \in DOMAIN apiKeys
  /\ apiKeys' = [apiKeys EXCEPT ![id] = Deactivated(@)]
  /\ UNCHANGED <<now, rateLimitRecords, lastUsedJobs, req, hist, started, tally>>
  /\ createResp' = Nil

\* the middleware's decision without the Limit == 0 test
MwDecision_NoInvalidKey(err, r) ==
  IF err THEN "error"
  ELSE IF ~r.Allowed THEN "exceeded"
  ELSE "next"

\* RateLimitMiddleware lines 32-69: which branch answers the request
MwDecision(err, r) ==
  IF err THEN "error"
  ELSE IF r.Limit = 0 THEN "invalid"
  ELSE IF ~r.Allowed THEN "exceeded"
  ELSE "next"

\* a middleware that answers a failed check like an unknown key
Respond_ErrorAsInvalid(r, err, result) ==
  IF err
    THEN [r EXCEPT !.pc = "done", !.err = TRUE,
                   !.status = StatusUnauthorized,
                   !.code = "INVALID_API_KEY"]
  ELSE IF result.Limit = 0
    THEN [r EXCEPT !.pc = "done", !.result = result,
                   !.status = StatusUnauthorized,
                   !.code = "INVALID_API_KEY"]
  ELSE IF ~result.Allowed
    THEN [r EXCEPT !.pc = "retry", !.result = result]
  ELSE [r EXCEPT !.pc = "done", !.result = result, !.served = TRUE]

\* the response RateLimitMiddleware writes for a finished CheckRateLimit call
\* (lines 32-69); on the 429 branch the Retry-After value still has to be
\* computed from a fresh time.Now(), so the request stops at "retry"
Respond(r, err, result) ==
  LET decision == MwDecision(err, result)
  IN IF decision = "error"
       THEN [r EXCEPT !.pc = "done", !.err = TRUE,
                      !.status = StatusInternalServerError,
                      !.code = "INTERNAL_ERROR"]
     ELSE IF decision = "invalid"
       THEN [r EXCEPT !.pc = "done", !.result = result,
                      !.status = StatusUnauthorized,
                      !.code = "INVALID_API_KEY"]
     ELSE IF decision = "exceeded"
       THEN [r EXCEPT !.pc = "retry", !.result = result]
     ELSE [r EXCEPT !.pc = "done", !.result = result, !.served = TRUE]

\* OptionalRateLimitMiddleware lines 110-119: the 429 answer is written at
\* once, its Retry-After header set from ResetTime.Unix()
OptionalAnswer(r) ==
  IF r.optional /\ r.pc = "retry"
    THEN [r EXCEPT !.pc = "done", !.status = StatusTooManyRequests,
                   !.code = "RATE_LIMIT_EXCEEDED",
                   !.retryAfter = r.result.ResetTime]
    ELSE r

\* -------------------------- RateLimitMiddleware entry and the key lookup
\* middleware lines 18-31 and CheckRateLimit lines 33-54: read X-API-Key (an
\* empty header is answered 401 at once), digest it, GetByKeyHash, the
\* not-found result, the window start from time.Now()
MwEnter(p, header, storageError) ==
  /\ UNCHANGED <<authVars, anVars, acctVars, winVars, proxyVars>>
  /\ req[p].pc \in {"idle", "done"}
  /\ \A q \in Procs : q < p => req[q].pc \notin {"idle", "done"}
  /\ started < MaxRequests
  /\ started' = started + 1
  /\ LET rec == GetByKeyHash(HashAPIKey(header))
         r == [IdleReq EXCEPT !.apiKey = header]
         found == header # "" /\ ~storageError /\ rec # Nil
         key == <<rec.ID, calculateWindowStart(now, rec.RateWindowSeconds)>>
     IN /\ tally' = IF found
                       THEN Tallied(key, [TallyOf(key) EXCEPT !.found = @ + 1])
                       ELSE tally
        /\ req' = [req EXCEPT ![p] =
             IF header = ""
               THEN [r EXCEPT !.pc = "done", !.status = StatusUnauthorized,
                              !.code = "MISSING_API_KEY"]
             ELSE IF storageError
               THEN Respond([r EXCEPT !.checked = TRUE, !.fault = "lookup"], TRUE, Nil)
             ELSE IF rec = Nil
               THEN Respond([r EXCEPT !.checked = TRUE], FALSE,
                            [Allowed |-> FALSE, Limit |-> 0,
                             Remaining |-> 0, ResetTime |-> now])
             ELSE [r EXCEPT !.pc = "increment", !.checked = TRUE, !.rec = rec,
                            !.windowStart =
                               calculateWindowStart(now, rec.RateWindowSeconds)]]
  /\ UNCHANGED <<now, apiKeys, rateLimitRecords, lastUsedJobs, hist>>
  /\ createResp' = Nil

\* a request entering RateLimitMiddleware
MwStart(p, header, storageError) ==
  MwEnter(p, header, storageError) /\ UNCHANGED routerVars

\* OptionalRateLimitMiddleware lines 79-108 up to the key lookup: a request
\* without X-API-Key goes to the next handler unchecked, any other is
\* checked as in RateLimitMiddleware
OptStart(p, header, storageError) ==
  /\ UNCHANGED <<authVars, anVars, acctVars, winVars, proxyVars, routerVars>>
  /\ req[p].pc \in {"idle", "done"}
  /\ \A q \in Procs : q < p => req[q].pc \notin {"idle", "done"}
  /\ started < MaxRequests
  /\ started' = started + 1
  /\ LET rec == GetByKeyHash(HashAPIKey(header))
         r == [IdleReq EXCEPT !.apiKey = header, !.optional = TRUE]
         found == header # "" /\ ~storageError /\ rec # Nil
         key == <<rec.ID, calculateWindowStart(now, rec.RateWindowSeconds)>>
     IN /\ tally' = IF found
                       THEN Tallied(key, [TallyOf(key) EXCEPT !.found = @ + 1])
                       ELSE tally
        /\ req' = [req EXCEPT ![p] =
             IF header = ""
               THEN [r EXCEPT !.pc = "done", !.served = TRUE]
             ELSE IF storageError
               THEN Respond([r EXCEPT !.checked = TRUE, !.fault = "lookup"], TRUE, Nil)
             ELSE IF rec = Nil
               THEN Respond([r EXCEPT !.checked = TRUE], FALSE,
                            [Allowed |-> FALSE, Limit |-> 0,
                             Remaining |-> 0, ResetTime |-> now])
             ELSE [r EXCEPT !.pc = "increment", !.checked = TRUE, !.rec = rec,
                            !.windowStart =
                               calculateWindowStart(now, rec.RateWindowSeconds)]]
  /\ UNCHANGED <<now, apiKeys, rateLimitRecords, lastUsedJobs, hist>>
  /\ createResp' = Nil

\* --------------------------------------------- CheckRateLimit, increment
\* lines 56-79: the atomic upsert, the detached last-used update, the result,
\* and the middleware's answer to it
CheckIncrement(p, storageError) ==
  /\ UNCHANGED <<authVars, anVars, acctVars, winVars, proxyVars, routerVars>>
  /\ req[p].pc = "increment"
  /\ LET rec == req[p].rec
         key == <<rec.ID, req[p].windowStart>>
         requestCount == UpsertCount(rateLimitRecords, key)
         returned == IF key \in DOMAIN hist THEN Append(hist[key], requestCount)
                     ELSE <<requestCount>>
     IN IF storageError
          THEN /\ req' = [req EXCEPT ![p] =
                              Respond([@ EXCEPT !.fault = "increment"], TRUE, Nil)]
               /\ tally' = Tallied(key, [TallyOf(key) EXCEPT !.failed = @ + 1])
               /\ UNCHANGED <<rateLimitRecords, lastUsedJobs, hist>>
          ELSE /\ rateLimitRecords' =
                    [k \in DOMAIN rateLimitRecords \cup {key} |->
                       IF k = key THEN requestCount ELSE rateLimitRecords[k]]
               /\ hist' = [k \in DOMAIN hist \cup {key} |->
                             IF k = key THEN returned ELSE hist[k]]
               /\ lastUsedJobs' = lastUsedJobs \cup {rec.ID}
               /\ tally' = IF Allowed(requestCount, rec.RateLimit)
                              THEN Tallied(key, [TallyOf(key) EXCEPT !.admitted = @ + 1])
                              ELSE tally
               /\ req' = [req EXCEPT ![p] = OptionalAnswer(
                    Respond([@ EXCEPT !.ordinal = Len(returned),
                                      !.activeAtIncrement = apiKeys[rec.ID].IsActive],
                            FALSE,
                            [Allowed |-> Allowed(requestCount, rec.RateLimit),
                             Limit |-> rec.RateLimit,
                             Remaining |-> Remaining(requestCount, rec.RateLimit),
                             ResetTime |-> ResetTime(req[p].windowStart,
                                                     rec.RateWindowSeconds)]))]
  /\ UNCHANGED <<now, apiKeys, started>>
  /\ createResp' = Nil

\* Retry-After of the 429 answer (middleware lines 54-57)
RetryAfter(resetUnix, nowUnix) ==
  IF resetUnix - nowUnix < 0 THEN 1 ELSE resetUnix - nowUnix

\* ------------------------------------ RateLimitMiddleware, the 429 answer
\* lines 53-66: Retry-After from a second time.Now(), then the error body
MwTooManyRequests(p) ==
  /\ UNCHANGED <<authVars, anVars, acctVars, winVars, proxyVars, routerVars>>
  /\ req[p].pc = "retry"
  /\ req' = [req EXCEPT ![p] =
       [@ EXCEPT !.pc = "done", !.status = StatusTooManyRequests,
                 !.code = "RATE_LIMIT_EXCEEDED",
                 !.retryAfter = RetryAfter(req[p].result.ResetTime, now)]]
  /\ UNCHANGED <<now, apiKeys, rateLimitRecords, lastUsedJobs, hist, started, tally>>
  /\ createResp' = Nil

\* a last-used update that writes the whole record read at lookup back
LastUsed_SaveRecord(row, t) ==
  [row EXCEPT !.LastUsedAt = [Valid |-> TRUE, Time |-> t], !.IsActive = TRUE]

\* the row update of repository.UpdateLastUsed: last_used_at = NOW(), a
\* nullable column (sql.NullTime)
LastUsed(row, t) == [row EXCEPT !.LastUsedAt = [Valid |-> TRUE, Time |-> t]]

\* the goroutine of CheckRateLimit line 63: repository.UpdateLastUsed, whose
\* error is dropped
UpdateLastUsed(id, storageError) ==
  /\ UNCHANGED <<authVars, anVars, acctVars, winVars, proxyVars, routerVars>>
  /\ id \in lastUsedJobs
  /\ lastUsedJobs' = lastUsedJobs \ {id}
  /\ apiKeys' = IF storageError THEN apiKeys
                ELSE [apiKeys EXCEPT ![id] = LastUsed(@, now)]
  /\ UNCHANGED <<now, rateLimitRecords, req, hist, started, tally>>
  /\ createResp' = Nil

\* the wall clock advances
Tick ==
  /\ UNCHANGED <<authVars, anVars, acctVars, winVars, proxyVars, routerVars>>
  /\ now < MaxTime
  /\ now' = now + 1
  /\ UNCHANGED <<apiKeys, rateLimitRecords, lastUsedJobs, req, hist, started, tally>>
  /\ createResp' = Nil

InitWindow == win = Nil

\* CheckRateLimit lines 52-54 for a key with the given window length, called
\* at the given time
WindowOf(currentUnix, windowSeconds) ==
  /\ UNCHANGED <<rlVars, authVars, anVars, acctVars, proxyVars, routerVars>>
  /\ LET windowStart == calculateWindowStart(currentUnix, windowSeconds)
     IN win' = [currentUnix |-> currentUnix, windowSeconds |-> windowSeconds,
                windowStart |-> windowStart,
                resetTime |-> ResetTime(windowStart, windowSeconds)]

NextWindow ==
  \E t \in 0..MaxUnix, w \in 1..MaxWindowSeconds : WindowOf(t, w)

\* api_keys after both raw keys have been issued, the second by a create
\* request asking for one request per two seconds
TwoKeys ==
  LET row(apiKey, limit) ==
        [Name |-> "svc", KeyHash |-> HashAPIKey(apiKey),
         RateLimit |-> EffectiveRateLimit(limit),
         RateWindowSeconds |-> EffectiveRateWindow(2),
         IsActive |-> TRUE, LastUsedAt |-> [Valid |-> FALSE, Time |-> 0]]
  IN (1 :> row("ka", 2)) @@ (2 :> row("kb", 1))

\* traffic on the two keys, the key lookup and the last-used update succeeding
NextKeys ==
  \/ \E p \in Procs, h \in RawKeys : MwStart(p, h, FALSE)
  \/ \E p \in Procs, e \in BOOLEAN : CheckIncrement(p, e)
  \/ \E p \in Procs : MwTooManyRequests(p)
  \/ \E id \in DOMAIN TwoKeys : UpdateLastUsed(id, FALSE)
  \/ Tick

\* the gateway with OptionalRateLimitMiddleware in front of its handlers
NextOptional ==
  \/ \E b \in CreateBodies, re \in BOOLEAN, e \in BOOLEAN : CreateAPIKey(b, re, e)
  \/ \E p \in Procs, h \in RawKeys \cup {""}, e \in BOOLEAN : OptStart(p, h, e)
  \/ \E p \in Procs, e \in BOOLEAN : CheckIncrement(p, e)
  \/ \E id \in KeyIDs, e \in BOOLEAN : UpdateLastUsed(id, e)
  \/ Tick

\* ------------------------------------------------------------- the router
\* main lines 92-153: the RouterConfig handed to SetupRouter; the rate limiter
\* and the admin handler exist when a database is configured, the auth
\* handler and service when a JWT secret is configured as well
RouterConfig(database, jwtSecret) ==
  [RateLimiter |-> database, AdminHandler |-> database,
   AuthHandler |-> database /\ jwtSecret, AuthService |-> database /\ jwtSecret]

Route(router, path, method, handler) ==
  [router |-> router, path |-> path, method |-> method, handler |-> handler]

\* SetupRouter lines 22-68: the routes in registration order, each with the
\* (sub)router it was registered on
Routes(config) ==
  <<Route("root", <<"health">>, "POST", "HealthCheck")>>
  \o (IF config.AuthHandler
        THEN <<Route("auth", <<"api", "v1", "auth", "register">>, "POST", "Register"),
               Route("auth", <<"api", "v1", "auth", "login">>, "POST", "Login"),
               Route("auth", <<"api", "v1", "auth", "refresh">>, "POST", "Refresh")>>
             \o (IF config.AuthService
                   THEN <<Route("protectedAuth", <<"api", "v1", "auth", "me">>,
                                "POST", "Me")>>
                   ELSE << >>)
        ELSE << >>)
  \o <<Route("api", <<"api", "v1", "summoner">>, "POST", "GetSummoner"),
        Route("api", <<"api", "v1", "matches">>, "POST", "GetMatches"),
        Route("api", <<"api", "v1", "analyze">>, "POST", "AnalyzePlayer")>>
  \o (IF config.AdminHandler
        THEN <<Route("admin", <<"api", "v1", "admin", "apikeys">>, "POST", "CreateAPIKey"),
               Route("admin", <<"api", "v1", "admin", "apikeys", "list">>, "POST",
                     "ListAPIKeys"),
               Route("admin", <<"api", "v1", "admin", "apikeys", "delete">>, "POST",
                     "DeleteAPIKey"),
               Route("admin", <<"api", "v1", "admin", "apikeys", "{id}">>, "DELETE",
                     "DeleteAPIKey")>>
        ELSE << >>)

\* a route's path template against a request path
PathMatches(template, path) ==
  /\ Len(template) = Len(path)
  /\ \A i \in 1..Len(path) : template[i] = "{id}" \/ template[i] = path[i]

\* mux.Router.Match: the first route in registration order whose path and
\* method match; a path that matches only with another method is answered
\* 405, any other 404, both without the middleware of any subrouter
Match(method, path, routes) ==
  LET byPath == {i \in 1..Len(routes) : PathMatches(routes[i].path, path)}
      full == {i \in byPath : routes[i].method = method}
  IN IF full # {}
       THEN routes[CHOOSE i \in full : \A j \in full : i <= j]
     ELSE IF byPath # {}
       THEN Route("none", path, method, "MethodNotAllowed")
     ELSE Route("none", path, method, "NotFound")

\* a rate limiter attached to everything under the /api/v1 prefix
Limited_ByPrefix(config, route) ==
  /\ config.RateLimiter
  /\ Len(route.path) >= 2
  /\ SubSeq(route.path, 1, 2) = <<"api", "v1">>

\* SetupRouter lines 44-49: RateLimitMiddleware is installed on apiRouter,
\* when there is a rate limiter, and runs for the routes registered on it
Limited(config, route) == config.RateLimiter /\ route.router = "api"

InitRouter ==
  rt = [config |-> RouterConfig(TRUE, TRUE), handler |-> [p \in Procs |-> ""]]

\* the requests sent to the router
Requests ==
  {<<"POST", <<"health">>>>,
   <<"POST", <<"api", "v1", "auth", "login">>>>,
   <<"POST", <<"api", "v1", "summoner">>>>,
   <<"POST", <<"api", "v1", "matches">>>>,
   <<"POST", <<"api", "v1", "analyze">>>>,
   <<"GET", <<"api", "v1", "summoner">>>>,
   <<"POST", <<"api", "v1", "admin", "apikeys">>>>,
   <<"DELETE", <<"api", "v1", "admin", "apikeys", "k1">>>>,
   <<"POST", <<"api", "v1", "unknown">>>>}

\* the route each request is matched to under each configuration
Matched ==
  [c \in {RouterConfig(d, j) : d, j \in BOOLEAN}, r \in Requests |->
     Match(r[1], r[2], Routes(c))]

\* a request arrives at the router: it is matched to a route and, on a rate
\* limited route, enters RateLimitMiddleware; on any other route it reaches
\* its handler, or the 404 or 405 answer, at once; the rate limited requests
\* are sent one after the other
Dispatch(p, method, path, header, storageError) ==
  LET route == Matched[rt.config, <<method, path>>]
  IN /\ rt' = [rt EXCEPT !.handler[p] = route.handler]
     /\ IF Limited(rt.config, route)
          THEN /\ \A q \in Procs : req[q].pc \in {"idle", "done"}
               /\ MwEnter(p, header, storageError)
          ELSE /\ UNCHANGED <<authVars, anVars, acctVars, winVars, proxyVars>>
               /\ ~storageError
               /\ route.handler \notin {"GetSummoner", "GetMatches", "AnalyzePlayer"}
                    => header = ""
               /\ req[p].pc \in {"idle", "done"}
               /\ \A q \in Procs : q < p => req[q].pc \notin {"idle", "done"}
               /\ started < MaxRequests
               /\ started' = started + 1
               /\ req' = [req EXCEPT ![p] =
                            [IdleReq EXCEPT !.apiKey = header, !.pc = "done",
                                            !.served = route.router # "none"]]
               /\ UNCHANGED <<now, apiKeys, rateLimitRecords, lastUsedJobs, hist,
                              tally>>
               /\ createResp' = Nil

\* the gateway behind its router
NextRouter ==
  \/ \E p \in Procs, r \in Requests, h \in RawKeys \cup {""}, e \in BOOLEAN :
       Dispatch(p, r[1], r[2], h, e)
  \/ \E p \in Procs, e \in BOOLEAN : CheckIncrement(p, e)
  \/ \E p \in Procs : MwTooManyRequests(p)
  \/ \E id \in KeyIDs, e \in BOOLEAN : UpdateLastUsed(id, e)
  \/ \E id \in KeyIDs : DeleteAPIKey(id)

NextRL ==
  \/ \E b \in CreateBodies, re \in BOOLEAN, e \in BOOLEAN : CreateAPIKey(b, re, e)
  \/ \E id \in KeyIDs : DeleteAPIKey(id)
  \/ \E p \in Procs, h \in RawKeys \cup {""}, e \in BOOLEAN : MwStart(p, h, e)
  \/ \E p \in Procs, e \in BOOLEAN : CheckIncrement(p, e)
  \/ \E p \in Procs : MwTooManyRequests(p)
  \/ \E id \in KeyIDs, e \in BOOLEAN : UpdateLastUsed(id, e)
  \/ Tick

\* =========================================================== AuthService
\* uuid.UUID.String(): the canonical text form
UUIDString(userID) == [form |-> "canonical", id |-> userID]

\* uuid.Parse: accepts the canonical, urn:uuid:, braced and 32-digit forms
UUIDParse(text) ==
  IF text.form \in {"canonical", "urn", "braced", "hex"}
    THEN [ok |-> TRUE, id |-> text.id]
    ELSE [ok |-> FALSE, id |-> "00000000"]

\* jwt.NewNumericDate: the time truncated to whole seconds
NumericDate(t) == (t \div TicksPerSecond) * TicksPerSecond

\* the HMAC signature of a header and claim set under a key
Sign(alg, claims, key) == [alg |-> alg, claims |-> claims, key |-> key]

\* generateToken that writes the raw 16 bytes of the id as the subject
generateToken_RawSubject(userID, tokenType, ttl, t) ==
  LET claims == [UserID |-> [form |-> "raw", id |-> userID],
                 TokenType |-> tokenType,
                 ExpiresAt |-> NumericDate(t + ttl),
                 IssuedAt |-> NumericDate(t),
                 NotBefore |-> NumericDate(t),
                 Issuer |-> "opgl-gateway"]
  IN [alg |-> "HS256", claims |-> claims, sig |-> Sign("HS256", claims, JwtSecret)]

\* AuthService.generateToken at time t: the claims, signed with HS256
generateToken(userID, tokenType, ttl, t) ==
  LET claims == [UserID |-> UUIDString(userID),
                 TokenType |-> tokenType,
                 ExpiresAt |-> NumericDate(t + ttl),
                 IssuedAt |-> NumericDate(t),
                 NotBefore |-> NumericDate(t),
                 Issuer |-> "opgl-gateway"]
  IN [alg |-> "HS256", claims |-> claims, sig |-> Sign("HS256", claims, JwtSecret)]

InvalidToken == [ok |-> FALSE, userID |-> "00000000"]

\* validateToken that does not compare the type tag
validateToken_NoTypeCheck(token, expectedType, t) ==
  LET signed == /\ token.alg \in {"HS256", "HS384", "HS512"}
                /\ token.sig = Sign(token.alg, token.claims, JwtSecret)
      inTime == t < token.claims.ExpiresAt /\ ~(t < token.claims.NotBefore)
      parsed == UUIDParse(token.claims.UserID)
  IN IF ~(signed /\ inTime) THEN InvalidToken
     ELSE IF ~parsed.ok THEN InvalidToken
     ELSE [ok |-> TRUE, userID |-> parsed.id]

\* validateToken that parses without claims validation (no exp / nbf test)
validateToken_NoExpiry(token, expectedType, t) ==
  LET signed == /\ token.alg \in {"HS256", "HS384", "HS512"}
                /\ token.sig = Sign(token.alg, token.claims, JwtSecret)
      parsed == UUIDParse(token.claims.UserID)
  IN IF ~signed THEN InvalidToken
     ELSE IF token.claims.TokenType # expectedType THEN InvalidToken
     ELSE IF ~parsed.ok THEN InvalidToken
     ELSE [ok |-> TRUE, userID |-> parsed.id]

\* AuthService.validateToken at time t: jwt.ParseWithClaims (HMAC family,
\* signature under jwtSecret, then exp and nbf), the type tag, uuid.Parse
validateToken(token, expectedType, t) ==
  LET signed == /\ token.alg \in {"HS256", "HS384", "HS512"}
                /\ token.sig = Sign(token.alg, token.claims, JwtSecret)
      inTime == t < token.claims.ExpiresAt /\ ~(t < token.claims.NotBefore)
      parsed == UUIDParse(token.claims.UserID)
  IN IF ~(signed /\ inTime) THEN InvalidToken
     ELSE IF token.claims.TokenType # expectedType THEN InvalidToken
     ELSE IF ~parsed.ok THEN InvalidToken
     ELSE [ok |-> TRUE, userID |-> parsed.id]

\* AuthService.ValidateAccessToken
ValidateAccessToken(token, t) == validateToken(token, "access", t)

\* a validator with refresh-token rotation: a refresh token is refused once
\* the request before it issued its subject a newer one
ValidateRefreshToken_Rotating(token, t) ==
  IF /\ resp # Nil
     /\ resp.op \in {"login", "refresh"}
     /\ resp.status = StatusOK
     /\ resp.body.refreshToken # token
     /\ resp.body.refreshToken.claims.UserID = token.claims.UserID
    THEN InvalidToken
    ELSE validateToken(token, "refresh", t)

\* a refresh validator that expects the access type
ValidateRefreshToken_AsAccess(token, t) == validateToken(token, "access", t)

\* AuthService.ValidateRefreshToken
ValidateRefreshToken(token, t) == validateToken(token, "refresh", t)

\* the tokens the service has issued
IssuedTokens == {pr.AccessToken : pr \in pairs} \cup {pr.RefreshToken : pr \in pairs}

OtherType(tokenType) == IF tokenType = "access" THEN "refresh" ELSE "access"

\* what a caller can make of an issued token without the secret: the type tag
\* rewritten under the old signature, the same claims unsigned (alg none),
\* and the rewritten claims signed with a key of its own
ForgedFrom(token) ==
  LET flipped == [token.claims EXCEPT !.TokenType = OtherType(@)]
  IN {[token EXCEPT !.claims = flipped],
      [alg |-> "none", claims |-> token.claims, sig |-> Sign("none", token.claims, "")],
      [alg |-> "HS256", claims |-> flipped, sig |-> Sign("HS256", flipped, OtherSecret)]}

\* every token string a caller can present
Presentable == IssuedTokens \cup UNION {ForgedFrom(tk) : tk \in IssuedTokens}

InitAuth ==
  /\ clock = 0
  /\ pairs = {}
  /\ lastVal = Nil

\* the TokenPair of GenerateTokenPair called at time t, elapsed ticks passing
\* between its two generateToken calls
TokenPair(userID, t, elapsed) ==
  [AccessToken |-> generateToken(userID, "access", AccessTokenTTL, t),
   RefreshToken |-> generateToken(userID, "refresh", RefreshTokenTTL, t + elapsed),
   ExpiresIn |-> AccessTokenTTL \div TicksPerSecond]

\* AuthService.GenerateTokenPair: two generateToken calls, each reading
\* time.Now(); elapsed ticks may pass between them.  subject, accessAt and
\* refreshAt record the call's argument and the two clock readings.
GenerateTokenPair(userID, elapsed) ==
  /\ UNCHANGED <<rlVars, anVars, acctVars, winVars, proxyVars, routerVars>>
  /\ Cardinality(pairs) < MaxPairs
  /\ clock + elapsed <= MaxTicks
  /\ pairs' = pairs \cup
       {TokenPair(userID, clock, elapsed) @@
          [subject |-> userID, accessAt |-> clock, refreshAt |-> clock + elapsed]}
  /\ clock' = clock + elapsed
  /\ UNCHANGED lastVal

\* ValidateAccessToken / ValidateRefreshToken on a presented token
ValidateToken(token, expectedType) ==
  /\ UNCHANGED <<rlVars, anVars, acctVars, winVars, proxyVars, routerVars>>
  /\ lastVal' = [token |-> token, expected |-> expectedType, at |-> clock,
                 res |-> validateToken(token, expectedType, clock)]
  /\ UNCHANGED <<clock, pairs>>

AuthTick ==
  /\ UNCHANGED <<rlVars, anVars, acctVars, winVars, proxyVars, routerVars>>
  /\ clock < MaxTicks
  /\ clock' = clock + 1
  /\ UNCHANGED <<pairs, lastVal>>

NextAuth ==
  \/ \E u \in UserIDs, d \in {0, 1} : GenerateTokenPair(u, d)
  \/ \E tk \in Presentable, ty \in TokenTypes : ValidateToken(tk, ty)
  \/ AuthTick

\* ================================================ Handler.AnalyzePlayer
\* request bodies of POST /api/v1/analyze: undecodable, or the three fields
AnalyzeBodies ==
  {[json |-> FALSE, region |-> "", gameName |-> "", tagLine |-> ""]} \cup
  [json : {TRUE}, region : {"", "na"}, gameName : {"", "Player"}, tagLine : {"", "NA1"}]

\* what a downstream service can answer to one POST of the proxy: no
\* connection, a non-200 status with a body text, 200 with an undecodable
\* body, 200 with a value
DownstreamAnswers(values) ==
  {[kind |-> "conn", status |-> 0, value |-> "refused"],
   [kind |-> "http", status |-> StatusNotFound, value |-> "not found"],
   [kind |-> "http", status |-> StatusOK, value |-> "garbage"]} \cup
  [kind : {"http"}, status : {StatusOK}, value : values]

\* profiles the data service can return, and the PUUID field of each
Summoners == {"s1", "s2"}
MatchLists == {"none", "m1"}
Analyses == {"a1"}

\* the operations of ServiceProxy: GetSummonerByRiotID, GetMatchesByRiotID,
\* GetMatchesByPUUID, AnalyzePlayer
ProxyOps == {"summoner", "matchesByName", "matches", "analysis"}

ValuesOf(step) ==
  IF step = "summoner" THEN Summoners
  ELSE IF step \in {"matches", "matchesByName"} THEN MatchLists
  ELSE Analyses

\* a nil error
NoErr == [step |-> "", cause |-> "", status |-> 0, text |-> ""]

\* ServiceProxy.GetSummonerByRiotID / GetMatchesByPUUID / AnalyzePlayer after
\* its single httpClient.Post: the (value, error) pair it returns
ProxyReturn(step, answer) ==
  IF answer.kind = "conn"
    THEN [ok |-> FALSE, value |-> "nil",
          err |-> [step |-> step, cause |-> "call failed", status |-> 0,
                   text |-> answer.value]]
  ELSE IF answer.status # StatusOK
    THEN [ok |-> FALSE, value |-> "nil",
          err |-> [step |-> step, cause |-> "returned error",
                   status |-> answer.status, text |-> answer.value]]
  ELSE IF answer.value \notin ValuesOf(step)
    THEN [ok |-> FALSE, value |-> "nil",
          err |-> [step |-> step, cause |-> "decode failed", status |-> 0,
                   text |-> ""]]
  ELSE [ok |-> TRUE, value |-> answer.value, err |-> NoErr]

\* a proxy that sends the request again when the first attempt failed
ProxyExchange_RetryOnce(step, answers) ==
  IF ProxyReturn(step, answers[1]).ok
    THEN [posts |-> 1, ret |-> ProxyReturn(step, answers[1])]
    ELSE [posts |-> 2, ret |-> ProxyReturn(step, answers[2])]

\* one invocation of a ServiceProxy operation against a downstream service
\* that would answer answers[i] to the i-th request: the single
\* httpClient.Post of lines 44, 79, 113, 145 and what is returned
ProxyExchange(step, answers) ==
  [posts |-> 1, ret |-> ProxyReturn(step, answers[1])]

\* answers of a downstream service to the proxy alone: those of
\* DownstreamAnswers and further non-200 statuses, a 2xx among them
ProxyAnswers(values) ==
  DownstreamAnswers(values) \cup
  {[kind |-> "http", status |-> StatusCreated, value |-> "created"],
   [kind |-> "http", status |-> StatusInternalServerError, value |-> "boom"],
   [kind |-> "http", status |-> StatusTooManyRequests, value |-> ""]}

InitProxy == px = Nil

\* a ServiceProxy operation called on its own
ProxyCall(op, answers) ==
  /\ UNCHANGED <<rlVars, authVars, anVars, acctVars, winVars, routerVars>>
  /\ LET x == ProxyExchange(op, answers)
     IN px' = [op |-> op, answers |-> answers, posts |-> x.posts, ret |-> x.ret]

NextProxy ==
  \E op \in ProxyOps :
    \E a1 \in ProxyAnswers(ValuesOf(op)), a2 \in ProxyAnswers(ValuesOf(op)) :
      ProxyCall(op, <<a1, a2>>)

\* a fixed message passed to http.Error
PlainText(message) == [step |-> "", cause |-> message, status |-> 0, text |-> ""]

\* http.Error(writer, message, status): one plain-text response
ErrorResponse(status, err) ==
  [status |-> status, type |-> "text", err |-> err, value |-> "nil"]

\* Content-Type application/json and the encoded value, status 200
JSONResponse(value) ==
  [status |-> StatusOK, type |-> "json", err |-> NoErr, value |-> value]

\* a handler whose steps run summoner, analysis, matches
StepAfter_Swapped(step) ==
  IF step = "summoner" THEN "analysis"
  ELSE IF step = "analysis" THEN "matches"
  ELSE "done"

\* a handler that waits after the analysis instead of answering
StepAfter_Wait(step) ==
  IF step = "summoner" THEN "matches"
  ELSE IF step = "matches" THEN "analysis"
  ELSE "wait"

\* AnalyzePlayer lines 112-131: the step that follows a successful step
StepAfter(step) ==
  IF step = "summoner" THEN "matches"
  ELSE IF step = "matches" THEN "analysis"
  ELSE "done"

\* an error branch without its return statement
AbortsOn_NoReturn(ok) == FALSE

\* AnalyzePlayer lines 114-117, 121-124, 128-131: `if err != nil { ...; return }`
AbortsOn(ok) == ~ok

IdleAnalyze ==
  [pc |-> "idle", region |-> "", gameName |-> "", tagLine |-> "",
   summoner |-> "nil", matches |-> "nil", events |-> << >>, responses |-> << >>,
   abandonedAt |-> 0, route |-> ""]

CallEvent(step, args) ==
  [kind |-> "call", step |-> step, ok |-> TRUE, args |-> args, value |-> "nil"]
ReturnEvent(step, ok, value) ==
  [kind |-> "return", step |-> step, ok |-> ok, args |-> << >>, value |-> value]

\* models.Summoner.PUUID of a returned profile
PUUIDOf(summoner) ==
  IF summoner = "s1" THEN "p1" ELSE IF summoner = "s2" THEN "p2" ELSE ""

\* a handler that fetches the history by the caller's game name
ArgsOf_CallerName(step, r) ==
  IF step = "summoner" THEN <<r.region, r.gameName, r.tagLine>>
  ELSE IF step = "matches" THEN <<r.region, r.gameName, MatchCount>>
  ELSE <<r.summoner, r.matches>>

\* the arguments AnalyzePlayer passes to the proxy for a step
ArgsOf(step, r) ==
  IF step = "summoner" THEN <<r.region, r.gameName, r.tagLine>>
  ELSE IF step = "matches" THEN <<r.region, PUUIDOf(r.summoner), MatchCount>>
  ELSE <<r.summoner, r.matches>>

InitAnalyze == an = [p \in AProcs |-> IdleAnalyze]

\* a validation that forgets the tag line
MissingFields_NoTagLine(body) == body.region = "" \/ body.gameName = ""

\* handlers.go lines 45, 74, 107: a required field is missing or empty
MissingFields(body) == body.region = "" \/ body.gameName = "" \/ body.tagLine = ""

\* lines 96-113: decode, validate the three fields, start the profile lookup
AnalyzeStart(p, body) ==
  /\ UNCHANGED <<rlVars, authVars, acctVars, winVars, proxyVars, routerVars>>
  /\ an[p].pc = "idle"
  /\ an' = [an EXCEPT ![p] =
       IF ~body.json
         THEN [@ EXCEPT !.pc = "done", !.route = "analyze",
                        !.responses =
                           <<ErrorResponse(StatusBadRequest,
                                           PlainText("Invalid request body"))>>]
       ELSE IF MissingFields(body)
         THEN [@ EXCEPT !.pc = "done", !.route = "analyze",
                        !.responses =
                           <<ErrorResponse(StatusBadRequest,
                               PlainText("region, gameName, and tagLine are required"))>>]
       ELSE LET r == [@ EXCEPT !.pc = "summoner", !.route = "analyze",
                               !.region = body.region,
                               !.gameName = body.gameName, !.tagLine = body.tagLine]
            IN [r EXCEPT !.events = <<CallEvent("summoner", ArgsOf("summoner", r))>>]]

\* lines 113-134: a downstream call returns; on error the handler writes one
\* 500 with the error text and returns, otherwise it keeps the value and
\* starts the next step, or encodes the analysis result after the last one
StepReturn(p, step, answer) ==
  /\ UNCHANGED <<rlVars, authVars, acctVars, winVars, proxyVars, routerVars>>
  /\ an[p].pc = step
  /\ LET ret == ProxyExchange(step, <<answer>>).ret
         next == StepAfter(step)
         kept == IF step = "summoner" THEN [an[p] EXCEPT !.summoner = ret.value]
                 ELSE IF step = "matches" THEN [an[p] EXCEPT !.matches = ret.value]
                 ELSE an[p]
         logged == [kept EXCEPT !.events = Append(@, ReturnEvent(step, ret.ok, ret.value))]
         failed == [logged EXCEPT !.responses =
                      Append(@, ErrorResponse(StatusInternalServerError, ret.err))]
     IN an' = [an EXCEPT ![p] =
          IF AbortsOn(ret.ok) THEN [failed EXCEPT !.pc = "done"]
          ELSE LET cont == IF ret.ok THEN logged ELSE failed
               IN IF next = "done"
                    THEN [cont EXCEPT !.pc = "done",
                                      !.responses = Append(@, JSONResponse(ret.value))]
                    ELSE [cont EXCEPT !.pc = next,
                                      !.events = Append(@, CallEvent(next, ArgsOf(next, cont)))]]

\* the ServiceProxy operation behind a data route
OpOf(route) == IF route = "summoner" THEN "summoner" ELSE "matchesByName"

\* GetMatches lines 79-82: the default for a non-positive count
EffectiveCount(count) == IF count <= 0 THEN MatchCount ELSE count

\* GetSummoner lines 34-50 and GetMatches lines 62-84: decode, validate the
\* three fields, call GetSummonerByRiotID or GetMatchesByRiotID
DataStart(p, route, body, count) ==
  /\ UNCHANGED <<rlVars, authVars, acctVars, winVars, proxyVars, routerVars>>
  /\ an[p].pc = "idle"
  /\ route = "summoner" => count = 0
  /\ an' = [an EXCEPT ![p] =
       IF ~body.json
         THEN [@ EXCEPT !.pc = "done", !.route = route,
                        !.responses =
                           <<ErrorResponse(StatusBadRequest,
                                           PlainText("Invalid request body"))>>]
       ELSE IF MissingFields(body)
         THEN [@ EXCEPT !.pc = "done", !.route = route,
                        !.responses =
                           <<ErrorResponse(StatusBadRequest,
                               PlainText("region, gameName, and tagLine are required"))>>]
       ELSE [@ EXCEPT !.pc = "single", !.route = route, !.region = body.region,
                      !.gameName = body.gameName, !.tagLine = body.tagLine,
                      !.events =
                         <<CallEvent(OpOf(route),
                             IF route = "summoner"
                               THEN <<body.region, body.gameName, body.tagLine>>
                               ELSE <<body.region, body.gameName, body.tagLine,
                                      EffectiveCount(count)>>)>>]]

\* GetSummoner lines 50-57 and GetMatches lines 84-91: the call returns; one
\* 500 with the error text, or the encoded value
DataReturn(p, answer) ==
  /\ UNCHANGED <<rlVars, authVars, acctVars, winVars, proxyVars, routerVars>>
  /\ an[p].pc = "single"
  /\ LET op == OpOf(an[p].route)
         ret == ProxyExchange(op, <<answer>>).ret
     IN an' = [an EXCEPT ![p] =
          [@ EXCEPT !.pc = "done",
                    !.events = Append(@, ReturnEvent(op, ret.ok, ret.value)),
                    !.responses =
                       IF ret.ok THEN <<JSONResponse(ret.value)>>
                       ELSE <<ErrorResponse(StatusInternalServerError, ret.err)>>]]

\* the caller gives the request up while a downstream call is in flight:
\* the request's context is cancelled, which neither AnalyzePlayer nor the
\* proxy (httpClient.Post, no context) reads; abandonedAt is the number of
\* events at that moment, 0 while the caller is still there
Abandon(p) ==
  /\ UNCHANGED <<rlVars, authVars, acctVars, winVars, proxyVars, routerVars>>
  /\ an[p].pc \in {"summoner", "matches", "analysis"}
  /\ an[p].abandonedAt = 0
  /\ an' = [an EXCEPT ![p].abandonedAt = Len(an[p].events)]

\* one analyze request that its caller may abandon
NextAbandon ==
  \/ \E b \in AnalyzeBodies : AnalyzeStart(1, b)
  \/ \E st \in {"summoner", "matches", "analysis"} :
        \E a \in DownstreamAnswers(ValuesOf(st)) : StepReturn(1, st, a)
  \/ Abandon(1)

\* the three data routes side by side
NextData ==
  \/ \E p \in AProcs, b \in AnalyzeBodies : AnalyzeStart(p, b)
  \/ \E p \in AProcs : \E st \in {"summoner", "matches", "analysis"} :
        \E a \in DownstreamAnswers(ValuesOf(st)) : StepReturn(p, st, a)
  \/ \E p \in AProcs, ro \in {"summoner", "matches"}, b \in AnalyzeBodies,
        c \in {0, 5} : DataStart(p, ro, b, c)
  \/ \E p \in AProcs : \E a \in DownstreamAnswers(MatchLists \cup Summoners) :
        DataReturn(p, a)

NextAnalyze ==
  \/ \E p \in AProcs, b \in AnalyzeBodies : AnalyzeStart(p, b)
  \/ \E p \in AProcs : \E st \in {"summoner", "matches", "analysis"} :
        \E a \in DownstreamAnswers(ValuesOf(st)) : StepReturn(p, st, a)

\* ============================================================ AuthHandler
\* account ids: the i-th row inserted into users gets the i-th id
GeneratedUserIDs == <<"u1", "u2">>

\* email and password strings a caller sends; "" is an absent or empty field
Emails == {"", "nomail", "a@b.com", "c@d.com"}
Passwords == {"", "1234567", "12345678", "password2"}

\* strings.Contains(email, "@")
ContainsAt(email) == email \in {"a@b.com", "c@d.com"}

\* len(password)
PasswordLen(password) ==
  IF password = "" THEN 0
  ELSE IF password = "1234567" THEN 7
  ELSE IF password = "12345678" THEN 8
  ELSE 9

\* request bodies of register and login: undecodable, or the two fields
CredentialBodies ==
  {[json |-> FALSE, email |-> "", password |-> ""]} \cup
  [json : {TRUE}, email : Emails, password : Passwords]

\* auth.HashPassword: a salted one-way bcrypt hash
HashPassword(password, salt) ==
  [alg |-> "bcrypt", salt |-> salt, digest |-> <<"bcrypt", salt, password>>]

\* auth.VerifyPassword: bcrypt.CompareHashAndPassword recomputes the digest
\* with the hash's salt
VerifyPassword(password, hash) ==
  hash.digest = <<"bcrypt", hash.salt, password>>

\* a lookup that never finds a row
GetByEmail_Miss(email) == Nil

\* PostgresUserRepository.GetByEmail: the row, Nil for sql.ErrNoRows
GetByEmail(email) ==
  LET hit == {id \in DOMAIN users : users[id].Email = email}
  IN IF hit = {} THEN Nil ELSE users[CHOOSE id \in hit : TRUE]

\* PostgresUserRepository.GetByID
GetByID(id) == IF id \in DOMAIN users THEN users[id] ELSE Nil

\* RegisterResponse
RegisterResponse(user) == [id |-> UUIDString(user.ID), email |-> user.Email]

\* the response of a finished request, with the request it answers: the
\* endpoint, the input, the time, whether a storage or hashing call failed,
\* how many account-store calls were made, whether the handler behind
\* AuthMiddleware ran, and whether the request repeats the one answered 200
\* just before it
Answer(op, input, written, fault, storeCalls, handlerRan) ==
  [op |-> op, input |-> input, at |-> clock, status |-> written.status,
   code |-> written.code, message |-> written.message, body |-> written.body,
   fault |-> fault, storeCalls |-> storeCalls, handlerRan |-> handlerRan,
   repeat |-> /\ resp # Nil
              /\ resp.op = op
              /\ resp.status = StatusOK
              /\ resp.input = input]

\* a length check that also refuses the minimum length
PasswordTooShort_Inclusive(password) == PasswordLen(password) <= MinPasswordLen

\* Register line 64: len(registerRequest.Password) < 8
PasswordTooShort(password) == PasswordLen(password) < MinPasswordLen

InitAccounts ==
  /\ users = << >>
  /\ reg = [h \in Handlers |-> Nil]
  /\ resp = Nil

\* Register lines 42-82: decode, validate email and password, GetByEmail
RegisterStart(h, body, storageError) ==
  /\ UNCHANGED <<rlVars, authVars, anVars, winVars, proxyVars, routerVars>>
  /\ reg[h] = Nil
  \* a storage error needs a storage call
  /\ storageError => (/\ body.json /\ ContainsAt(body.email)
                      /\ PasswordLen(body.password) >= MinPasswordLen)
  /\ LET done(written, fault, calls) ==
           /\ resp' = Answer("register", body, written, fault, calls, FALSE)
           /\ UNCHANGED reg
     IN IF ~body.json
          THEN done(InvalidRequestBody("Invalid JSON format"), FALSE, 0)
        ELSE IF body.email = ""
          THEN done(ValidationFailed("email is required"), FALSE, 0)
        ELSE IF ~ContainsAt(body.email)
          THEN done(ValidationFailed("invalid email format"), FALSE, 0)
        ELSE IF body.password = ""
          THEN done(ValidationFailed("password is required"), FALSE, 0)
        ELSE IF PasswordTooShort(body.password)
          THEN done(ValidationFailed("password must be at least 8 characters"),
                    FALSE, 0)
        ELSE IF storageError
          THEN done(InternalError("Failed to check existing user"), TRUE, 1)
        ELSE IF GetByEmail(body.email) # Nil
          THEN done(WriteError("ErrCodeEmailAlreadyExists",
                               "Email already registered", StatusConflict),
                    FALSE, 1)
        ELSE /\ reg' = [reg EXCEPT ![h] = body]
             /\ resp' = Nil
  /\ UNCHANGED users

\* Register lines 84-105: HashPassword, then repository.Create, whose INSERT
\* fails on the UNIQUE constraint of users.email, then the 201 response
RegisterCreate(h, salt, hashError, storageError) ==
  /\ UNCHANGED <<rlVars, authVars, anVars, winVars, proxyVars, routerVars>>
  /\ reg[h] # Nil
  /\ ~(hashError /\ storageError)
  /\ reg' = [reg EXCEPT ![h] = Nil]
  /\ LET body == reg[h]
         id == GeneratedUserIDs[Cardinality(DOMAIN users) + 1]
         user == [ID |-> id, Email |-> body.email,
                  PasswordHash |-> HashPassword(body.password, salt)]
         duplicate == \E u \in DOMAIN users : users[u].Email = body.email
     IN IF hashError
          THEN /\ resp' = Answer("register", body,
                                 InternalError("Failed to hash password"), TRUE, 1, FALSE)
               /\ UNCHANGED users
        ELSE IF storageError \/ duplicate
          THEN /\ resp' = Answer("register", body,
                                 InternalError("Failed to create user"),
                                 storageError, 2, FALSE)
               /\ UNCHANGED users
        ELSE /\ users' = users @@ (id :> user)
             /\ resp' = Answer("register", body,
                               WriteJSON(StatusCreated, RegisterResponse(user)),
                               FALSE, 2, FALSE)

Salts == {"salt"}

\* the empty string where a token is expected: not a JWT
EmptyToken ==
  [alg |-> "", claims |-> generateToken("u1", "access", 0, 0).claims, sig |-> Nil]

TTLOf(tokenType) == IF tokenType = "access" THEN AccessTokenTTL ELSE RefreshTokenTTL

\* the tokens signed with the service's secret up to now
SignedTokens ==
  {generateToken(u, ty, TTLOf(ty), t) : u \in UserIDs, ty \in TokenTypes, t \in 0..clock}

\* the tokens signed at this very tick
FreshTokens ==
  {generateToken(u, ty, TTLOf(ty), clock) : u \in UserIDs, ty \in TokenTypes}

\* every token string a caller of the auth endpoints can present: the signed
\* tokens, what can be made of a fresh one without the secret, and ""
AccountTokens ==
  SignedTokens \cup UNION {ForgedFrom(tk) : tk \in FreshTokens} \cup {EmptyToken}

\* request bodies of refresh: undecodable, or the refreshToken field
RefreshBodies ==
  {[json |-> FALSE, refreshToken |-> EmptyToken]} \cup
  [json : {TRUE}, refreshToken : AccountTokens]

\* Authorization headers: absent, another scheme, Bearer with a token
NoHeader == [scheme |-> "", token |-> EmptyToken]
AuthHeaders ==
  {NoHeader} \cup
  [scheme : {"Basic ", "bearer "}, token : {tk \in SignedTokens : tk.claims.IssuedAt = 0}] \cup
  [scheme : {"Bearer "}, token : AccountTokens]

\* the 401 of a rejected login
InvalidCredentials ==
  WriteError("ErrCodeInvalidCredentials", "Invalid email or password", StatusUnauthorized)

\* LoginResponse
LoginResponse(tokenPair, user) ==
  [accessToken |-> tokenPair.AccessToken, refreshToken |-> tokenPair.RefreshToken,
   expiresIn |-> tokenPair.ExpiresIn,
   user |-> [id |-> UUIDString(user.ID), email |-> user.Email]]

\* a login that skips the password comparison
LoginOutcome_NoVerify(body, user, tokenPair) ==
  IF user = Nil THEN InvalidCredentials
  ELSE WriteJSON(StatusOK, LoginResponse(tokenPair, user))

\* Login lines 146-181: what is written for the row GetByEmail returned
LoginOutcome(body, user, tokenPair) ==
  IF user = Nil THEN InvalidCredentials
  ELSE IF ~VerifyPassword(body.password, user.PasswordHash) THEN InvalidCredentials
  ELSE WriteJSON(StatusOK, LoginResponse(tokenPair, user))

\* AuthHandler.Login; elapsed ticks pass inside GenerateTokenPair
Login(body, elapsed, storageError) ==
  /\ UNCHANGED <<rlVars, anVars, pairs, lastVal, winVars, proxyVars, routerVars>>
  /\ clock + elapsed <= MaxTicks
  /\ LET user == GetByEmail(body.email)
         written ==
           IF ~body.json THEN InvalidRequestBody("Invalid JSON format")
           ELSE IF body.email = "" \/ body.password = ""
             THEN ValidationFailed("email and password are required")
           ELSE IF storageError THEN InternalError("Failed to find user")
           ELSE LoginOutcome(body, user,
                             IF user = Nil THEN Nil
                             ELSE TokenPair(user.ID, clock, elapsed))
         validated == body.json /\ body.email # "" /\ body.password # ""
     IN /\ storageError => validated
        /\ elapsed # 0 => written.status = StatusOK
        /\ resp' = Answer("login", body, written, storageError,
                          IF validated THEN 1 ELSE 0, FALSE)
        /\ clock' = clock + elapsed
  /\ UNCHANGED <<users, reg>>

\* RefreshResponse
RefreshResponse(tokenPair) ==
  [accessToken |-> tokenPair.AccessToken, refreshToken |-> tokenPair.RefreshToken,
   expiresIn |-> tokenPair.ExpiresIn]

\* AuthHandler.Refresh: ValidateRefreshToken, GetByID, GenerateTokenPair
Refresh(body, elapsed, storageError) ==
  /\ UNCHANGED <<rlVars, anVars, pairs, lastVal, winVars, proxyVars, routerVars>>
  /\ clock + elapsed <= MaxTicks
  /\ LET validated == ValidateRefreshToken(body.refreshToken, clock)
         user == GetByID(validated.userID)
         present == body.json /\ body.refreshToken # EmptyToken
         written ==
           IF ~body.json THEN InvalidRequestBody("Invalid JSON format")
           ELSE IF body.refreshToken = EmptyToken
             THEN ValidationFailed("refreshToken is required")
           ELSE IF ~validated.ok
             THEN WriteError("ErrCodeInvalidToken", "Invalid or expired refresh token",
                             StatusUnauthorized)
           ELSE IF storageError \/ user = Nil
             THEN WriteError("ErrCodeInvalidToken", "User not found", StatusUnauthorized)
           ELSE WriteJSON(StatusOK,
                          RefreshResponse(TokenPair(validated.userID, clock, elapsed)))
     IN /\ storageError => (present /\ validated.ok)
        /\ elapsed # 0 => written.status = StatusOK
        /\ resp' = Answer("refresh", body, written, storageError,
                          IF present /\ validated.ok THEN 1 ELSE 0, FALSE)
        /\ clock' = clock + elapsed
  /\ UNCHANGED <<users, reg>>

\* strings.HasPrefix(authHeader, "Bearer ")
HasBearerPrefix(header) == header.scheme = "Bearer "

\* MeResponse (id and email; the timestamp columns of users are not modelled)
MeResponse(user) == [id |-> UUIDString(user.ID), email |-> user.Email]

\* a middleware that reads the token after any scheme word
PassesAuth_AnyScheme(header, validated) ==
  header.scheme # "" /\ validated.ok

\* AuthMiddleware lines 17-57: whether next.ServeHTTP is reached
PassesAuth(header, validated) ==
  header.scheme # "" /\ HasBearerPrefix(header) /\ validated.ok

\* POST /api/v1/auth/me: AuthMiddleware, then AuthHandler.Me with the userID
\* the middleware put into the request context
Me(header, storageError) ==
  /\ UNCHANGED <<rlVars, anVars, pairs, lastVal, winVars, proxyVars, routerVars>>
  /\ LET validated == ValidateAccessToken(header.token, clock)
         passes == PassesAuth(header, validated)
         user == GetByID(validated.userID)
         written ==
           IF header.scheme = ""
             THEN WriteError("ErrCodeUnauthorized", "Authorization header is required",
                             StatusUnauthorized)
           ELSE IF ~passes /\ ~HasBearerPrefix(header)
             THEN WriteError("ErrCodeUnauthorized",
                             "Invalid authorization format. Use: Bearer <token>",
                             StatusUnauthorized)
           ELSE IF ~passes
             THEN WriteError("ErrCodeInvalidToken", "Invalid or expired access token",
                             StatusUnauthorized)
           ELSE IF storageError THEN InternalError("Failed to get user")
           ELSE IF user = Nil
             THEN WriteError("ErrCodeUserNotFound", "User not found", StatusNotFound)
           ELSE WriteJSON(StatusOK, MeResponse(user))
     IN /\ storageError => passes
        /\ resp' = Answer("me", header, written, storageError,
                          IF passes THEN 1 ELSE 0, passes)
  /\ UNCHANGED <<clock, users, reg>>

\* the token service's clock advances
AccountTick ==
  /\ UNCHANGED <<rlVars, anVars, pairs, lastVal, winVars, proxyVars, routerVars>>
  /\ clock < MaxTicks
  /\ clock' = clock + 1
  /\ resp' = Nil
  /\ UNCHANGED <<users, reg>>

\* the auth endpoints, register requests arriving one at a time
NextAccounts ==
  \/ \E b \in CredentialBodies, e \in BOOLEAN : RegisterStart(1, b, e)
  \/ \E s \in Salts, he \in BOOLEAN, e \in BOOLEAN : RegisterCreate(1, s, he, e)
  \/ \E b \in CredentialBodies, d \in {0, 1}, e \in BOOLEAN : Login(b, d, e)
  \/ \E b \in RefreshBodies, d \in {0, 1}, e \in BOOLEAN : Refresh(b, d, e)
  \/ \E hd \in AuthHeaders, e \in BOOLEAN : Me(hd, e)
  \/ AccountTick

\* concurrent register requests
NextRegister ==
  \/ \E h \in Handlers, b \in CredentialBodies, e \in BOOLEAN : RegisterStart(h, b, e)
  \/ \E h \in Handlers, s \in Salts, he \in BOOLEAN, e \in BOOLEAN :
        RegisterCreate(h, s, he, e)

\* ======================================================= specifications
vars == <<now, apiKeys, rateLimitRecords, lastUsedJobs, req, hist, started, tally,
          createResp, clock, pairs, lastVal, an, users, reg, resp, win, px, rt>>

Init ==
  /\ InitRL /\ InitAuth /\ InitAnalyze /\ InitAccounts /\ InitWindow /\ InitProxy
  /\ InitRouter

\* the gateway started on a database that holds the two keys
InitKeys ==
  /\ now = 0
  /\ apiKeys = TwoKeys
  /\ rateLimitRecords = << >>
  /\ lastUsedJobs = {}
  /\ req = [p \in Procs |-> IdleReq]
  /\ hist = << >>
  /\ started = 0
  /\ tally = << >>
  /\ createResp = Nil
  /\ InitAuth /\ InitAnalyze /\ InitAccounts /\ InitWindow /\ InitProxy
  /\ InitRouter

Spec == Init /\ [][NextRL]_vars

SpecAuth == Init /\ [][NextAuth]_vars

SpecAnalyze == Init /\ [][NextAnalyze]_vars

\* the analyze endpoint when every downstream call returns: a request that is
\* waiting for ServiceProxy is eventually resumed with the call's result
SpecAnalyzeLive ==
  /\ Init
  /\ [][NextAnalyze]_vars
  /\ \A p \in AProcs :
       WF_vars(\E st \in {"summoner", "matches", "analysis"} :
                 \E a \in DownstreamAnswers(ValuesOf(st)) : StepReturn(p, st, a))

SpecRegister == Init /\ [][NextRegister]_vars

SpecAccounts == Init /\ [][NextAccounts]_vars

SpecWindow == Init /\ [][NextWindow]_vars

SpecAbandon == Init /\ [][NextAbandon]_vars

SpecProxy == Init /\ [][NextProxy]_vars

SpecData == Init /\ [][NextData]_vars

SpecOptional == Init /\ [][NextOptional]_vars

SpecKeys == InitKeys /\ [][NextKeys]_vars

\* the gateway as main starts it: with a database that holds one key, or
\* with none
InitRouting ==
  /\ \E database, jwtSecret \in BOOLEAN :
       /\ rt = [config |-> RouterConfig(database, jwtSecret),
                handler |-> [p \in Procs |-> ""]]
       /\ apiKeys = IF database THEN (1 :> TwoKeys[1]) ELSE << >>
  /\ now = 0
  /\ rateLimitRecords = << >>
  /\ lastUsedJobs = {}
  /\ req = [p \in Procs |-> IdleReq]
  /\ hist = << >>
  /\ started = 0
  /\ tally = << >>
  /\ createResp = Nil
  /\ InitAuth /\ InitAnalyze /\ InitAccounts /\ InitWindow /\ InitProxy

SpecRouter == InitRouting /\ [][NextRouter]_vars

\* ================================================================ claims
\* a request whose CheckRateLimit call has incremented a counter and returned
Counted(p) == req[p].pc \in {"retry", "done"} /\ req[p].ordinal > 0

\* a request whose CheckRateLimit call has returned a result without error
Returned(p) == req[p].pc \in {"retry", "done"} /\ req[p].checked /\ ~req[p].err

\* C1: for a key with limit L >= 1, the Nth CheckRateLimit call of an aligned
\* window (N = the call's position among the calls counted in that window)
\* returns Allowed = TRUE exactly when N <= L.
C1_NthAllowedIffWithinLimit ==
  \A p \in Procs :
    (Counted(p) /\ apiKeys[req[p].rec.ID].RateLimit >= 1)
      => (req[p].result.Allowed <=> req[p].ordinal <= apiKeys[req[p].rec.ID].RateLimit)

\* C1 witness: in one window of one key the Lth call was allowed and the
\* (L+1)th call was rejected
C1_Witness ==
  \E p, q \in Procs :
    /\ Counted(p) /\ Counted(q)
    /\ req[p].rec.ID = req[q].rec.ID /\ req[p].windowStart = req[q].windowStart
    /\ req[p].ordinal = req[p].rec.RateLimit /\ req[p].result.Allowed
    /\ req[q].ordinal = req[q].rec.RateLimit + 1 /\ ~req[q].result.Allowed

\* C2: the counts returned by the K successful increments of one
\* (key, windowStart) are exactly 1..K, none skipped or repeated, and the
\* stored count is K.
C2_NoLostUpdates ==
  \A key \in DOMAIN hist :
    /\ {hist[key][i] : i \in 1..Len(hist[key])} = 1..Len(hist[key])
    /\ \A i, j \in 1..Len(hist[key]) : hist[key][i] = hist[key][j] => i = j
    /\ key \in DOMAIN rateLimitRecords
    /\ rateLimitRecords[key] = Len(hist[key])

\* C2 witness: two requests have incremented the same (key, window) and a
\* third increment of it has succeeded as well
C2_Witness ==
  \E p, q \in Procs :
    /\ p # q
    /\ Counted(p) /\ Counted(q)
    /\ req[p].rec.ID = req[q].rec.ID /\ req[p].windowStart = req[q].windowStart
    /\ req[p].ordinal # req[q].ordinal
    /\ Len(hist[<<req[p].rec.ID, req[p].windowStart>>]) >= 3

\* C3: no CheckRateLimit call returns Allowed = TRUE for a key that was
\* already inactive when the call incremented the counter.
C3_InactiveNeverAdmitted ==
  \A p \in Procs :
    (Counted(p) /\ req[p].result.Allowed) => req[p].activeAtIncrement

\* the key rows, active or not, that a raw key's digest designates
RowsOf(apiKey) ==
  {id \in DOMAIN apiKeys : apiKeys[id].KeyHash = HashAPIKey(apiKey)}

\* C4: a CheckRateLimit call whose digest matches no active key returns
\* Allowed = FALSE, Limit = 0, Remaining = 0 without error, goes on to no
\* increment, and leaves every counter row, every last-used time and the
\* pending last-used updates unchanged.
C4_UnknownKeyNoEffect ==
  [][\A p \in Procs :
       (/\ req[p].pc \in {"idle", "done"}
        /\ req'[p] # req[p]
        /\ req'[p].checked
        /\ ~req'[p].err
        /\ \A id \in RowsOf(req'[p].apiKey) : ~apiKeys[id].IsActive)
       => /\ req'[p].pc = "done"
          /\ req'[p].result.Allowed = FALSE
          /\ req'[p].result.Limit = 0
          /\ req'[p].result.Remaining = 0
          /\ req'[p].ordinal = 0
          /\ rateLimitRecords' = rateLimitRecords
          /\ lastUsedJobs' = lastUsedJobs
          /\ apiKeys' = apiKeys]_vars

\* C4 witness: a call on a deactivated key has returned the not-found
\* result while that key already had a counter row
C4_Witness ==
  \E p \in Procs :
    /\ Returned(p) /\ req[p].rec = Nil /\ req[p].result.Limit = 0
    /\ \E id \in RowsOf(req[p].apiKey) :
          ~apiKeys[id].IsActive /\ \E key \in DOMAIN rateLimitRecords : key[1] = id

\* C5: the wrapped handler runs exactly when the header is non-empty,
\* CheckRateLimit returned no error, Limit # 0 and Allowed; a missing key is
\* answered 401 without calling CheckRateLimit, Limit = 0 is answered 401,
\* an exceeded limit 429 with a Retry-After header, a failed check 500.
C5_MiddlewareGate ==
  \A p \in Procs :
    req[p].pc = "done" =>
      /\ req[p].served <=>
            (/\ req[p].apiKey # "" /\ req[p].checked /\ ~req[p].err
             /\ req[p].result.Limit # 0 /\ req[p].result.Allowed)
      /\ req[p].apiKey = "" =>
            (req[p].status = StatusUnauthorized /\ ~req[p].checked /\ req[p].ordinal = 0)
      /\ (Returned(p) /\ req[p].result.Limit = 0) =>
            req[p].status = StatusUnauthorized
      /\ (Returned(p) /\ req[p].result.Limit # 0 /\ ~req[p].result.Allowed) =>
            (req[p].status = StatusTooManyRequests /\ req[p].retryAfter >= 0)
      /\ req[p].err => req[p].status = StatusInternalServerError
      /\ req[p].served => req[p].status = 0

\* C5 witness: one request was passed to the handler and another was
\* answered 429
C5_Witness ==
  \E p, q \in Procs :
    /\ req[p].pc = "done" /\ req[p].served
    /\ req[q].pc = "done" /\ req[q].status = StatusTooManyRequests

\* the last validation was of a token issued as tokenType by a pair
IssuedAs(pr, tokenType) ==
  IF tokenType = "access" THEN pr.AccessToken ELSE pr.RefreshToken

\* C6: an issued access token is accepted by ValidateAccessToken and rejected
\* by ValidateRefreshToken, an issued refresh token the other way round
\* (acceptance while the token is unexpired); no token, issued or rewritten
\* from an issued one, is accepted by the validator of the other type.
C6_TypeSeparation ==
  lastVal # Nil =>
    /\ lastVal.res.ok => lastVal.token.claims.TokenType = lastVal.expected
    /\ \A pr \in pairs, ty \in TokenTypes :
         /\ (lastVal.token = IssuedAs(pr, ty) /\ lastVal.expected = OtherType(ty))
              => ~lastVal.res.ok
         /\ (lastVal.token \in ForgedFrom(IssuedAs(pr, ty))
               /\ lastVal.expected = OtherType(ty))
              => ~lastVal.res.ok
         /\ (lastVal.token = IssuedAs(pr, ty) /\ lastVal.expected = ty
               /\ lastVal.at < lastVal.token.claims.ExpiresAt)
              => lastVal.res.ok

\* C6 witness: an unexpired issued refresh token was presented to
\* ValidateAccessToken and rejected
C6_Witness ==
  /\ lastVal # Nil
  /\ \E pr \in pairs : lastVal.token = pr.RefreshToken
  /\ lastVal.expected = "access"
  /\ lastVal.at < lastVal.token.claims.ExpiresAt
  /\ ~lastVal.res.ok

\* C7: a token whose expiry lies before the validation time is rejected even
\* with a good signature and the right type; an access token issued at t is
\* rejected at every time after t + accessTTL, a refresh token at every time
\* after t + refreshTTL.
C7_ExpiredRejected ==
  lastVal # Nil =>
    /\ lastVal.token.claims.ExpiresAt < lastVal.at => ~lastVal.res.ok
    /\ \A pr \in pairs :
         /\ (lastVal.token = pr.AccessToken
               /\ lastVal.at > pr.accessAt + AccessTokenTTL) => ~lastVal.res.ok
         /\ (lastVal.token = pr.RefreshToken
               /\ lastVal.at > pr.refreshAt + RefreshTokenTTL) => ~lastVal.res.ok

\* C7 witness: an issued refresh token, presented to the refresh validator
\* after its expiry, was rejected
C7_Witness ==
  /\ lastVal # Nil
  /\ \E pr \in pairs : /\ lastVal.token = pr.RefreshToken
                       /\ lastVal.at > pr.refreshAt + RefreshTokenTTL
  /\ lastVal.expected = "refresh"
  /\ lastVal.token.claims.ExpiresAt < lastVal.at
  /\ ~lastVal.res.ok

\* C8: validating the access token of GenerateTokenPair(id) as access-type
\* before its expiry returns exactly id, and so does its refresh token
\* validated as refresh-type.
C8_RoundTrip ==
  lastVal # Nil =>
    \A pr \in pairs, ty \in TokenTypes :
      (lastVal.token = IssuedAs(pr, ty) /\ lastVal.expected = ty
         /\ lastVal.at < lastVal.token.claims.ExpiresAt)
        => (lastVal.res.ok /\ lastVal.res.userID = pr.subject)

\* C8 witness: an access token issued in mid-second validated to its
\* account's id
C8_Witness ==
  /\ lastVal # Nil /\ lastVal.res.ok /\ lastVal.expected = "access"
  /\ \E pr \in pairs :
       /\ pr.accessAt % TicksPerSecond # 0
       /\ lastVal.token = pr.AccessToken
       /\ lastVal.res.userID = pr.subject

\* steps of the pipeline in the order of the Analysis Flow
StepNo(step) ==
  IF step = "summoner" THEN 1 ELSE IF step = "matches" THEN 2 ELSE 3

\* C9: in every execution of AnalyzePlayer the downstream calls are profile
\* lookup, history fetch, analysis in this order, each at most once, and a
\* step is called only directly after the previous step returned successfully.
C9_StrictlySequential ==
  \A p \in AProcs :
    LET ev == an[p].events
    IN \A i \in 1..Len(ev) :
         ev[i].kind = "call" =>
           /\ \A j \in 1..Len(ev) :
                (ev[j].kind = "call" /\ ev[j].step = ev[i].step) => j = i
           /\ IF StepNo(ev[i].step) = 1 THEN i = 1
              ELSE /\ i > 1
                   /\ ev[i - 1].kind = "return"
                   /\ ev[i - 1].ok
                   /\ StepNo(ev[i - 1].step) = StepNo(ev[i].step) - 1
           /\ i < Len(ev) =>
                (ev[i + 1].kind = "return" /\ ev[i + 1].step = ev[i].step)

\* C9 witness: one request has run all three steps while another is still
\* waiting for its profile lookup
C9_Witness ==
  \E p, q \in AProcs :
    /\ an[p].pc = "done" /\ Len(an[p].events) = 6
    /\ an[p].responses # << >> /\ an[p].responses[1].status = StatusOK
    /\ an[q].pc = "summoner"

\* the step of a request that failed, if one did
FailedAt(p, i) ==
  /\ i \in 1..Len(an[p].events)
  /\ an[p].events[i].kind = "return"
  /\ ~an[p].events[i].ok

\* C10: when step k fails no later step is invoked, exactly one response is
\* written, it is a 500 carrying that step's error, and it holds no profile,
\* history or analysis data.
C10_FirstFailureAborts ==
  \A p \in AProcs : \A i \in 1..Len(an[p].events) :
    FailedAt(p, i) =>
      /\ i = Len(an[p].events)
      /\ an[p].pc = "done"
      /\ Len(an[p].responses) = 1
      /\ an[p].responses[1].status = StatusInternalServerError
      /\ an[p].responses[1].type = "text"
      /\ an[p].responses[1].value = "nil"
      /\ an[p].responses[1].err.step = an[p].events[i].step

\* C10 witness: a request whose history fetch failed after a successful
\* profile lookup has been answered 500
C10_Witness ==
  \E p \in AProcs :
    /\ FailedAt(p, 4) /\ an[p].events[4].step = "matches"
    /\ an[p].summoner # "nil"
    /\ an[p].pc = "done"
    /\ an[p].responses[1].status = StatusInternalServerError
\* the value a request's step returned, "nil" if it has not returned a value
ReturnedBy(p, step) ==
  LET hit == {i \in 1..Len(an[p].events) :
                /\ an[p].events[i].kind = "return"
                /\ an[p].events[i].step = step /\ an[p].events[i].ok}
  IN IF hit = {} THEN "nil" ELSE an[p].events[CHOOSE i \in hit : TRUE].value

\* C11: the history call is invoked with the caller's region, the PUUID of
\* the profile that step 1 returned and the fixed count, never with the
\* caller's game name or tag line; the analysis call receives exactly the
\* profile returned by step 1 and the history returned by step 2.
C11_ArgumentsFlow ==
  \A p \in AProcs : \A i \in 1..Len(an[p].events) :
    LET ev == an[p].events[i]
    IN /\ (ev.kind = "call" /\ ev.step = "matches") =>
            /\ ReturnedBy(p, "summoner") \in Summoners
            /\ ev.args = <<an[p].events[1].args[1],
                           PUUIDOf(ReturnedBy(p, "summoner")), MatchCount>>
            /\ ev.args[2] \notin {an[p].events[1].args[2], an[p].events[1].args[3]}
       /\ (ev.kind = "call" /\ ev.step = "analysis") =>
            /\ ReturnedBy(p, "matches") \in MatchLists
            /\ ev.args = <<ReturnedBy(p, "summoner"), ReturnedBy(p, "matches")>>

\* C11 witness: two requests whose profile lookups returned different
\* profiles have both reached the analysis call
C11_Witness ==
  \E p, q \in AProcs :
    /\ ReturnedBy(p, "summoner") = "s1" /\ ReturnedBy(q, "summoner") = "s2"
    /\ \E i \in 1..Len(an[p].events) :
          an[p].events[i].kind = "call" /\ an[p].events[i].step = "analysis"
    /\ \E i \in 1..Len(an[q].events) :
          an[q].events[i].kind = "call" /\ an[q].events[i].step = "analysis"
\* a register or login body that passes Register's validation
ValidCredentials(body) ==
  /\ body.json
  /\ body.email # "" /\ ContainsAt(body.email)
  /\ PasswordLen(body.password) >= MinPasswordLen

\* the accounts registered under an email
AccountsOf(email) == {id \in DOMAIN users : users[id].Email = email}

\* C13: under any interleaving of concurrent Register requests with the same
\* valid email, a request (whose storage and hashing calls do not fail)
\* either creates the account and is answered 201 or is answered 409, never
\* another status, and at most one account holds an email in every state.
C13_ConcurrentRegister ==
  /\ \A email \in Emails : Cardinality(AccountsOf(email)) <= 1
  /\ (resp # Nil /\ resp.op = "register" /\ ValidCredentials(resp.input)
        /\ ~resp.fault) =>
       /\ resp.status \in {StatusCreated, StatusConflict}
       /\ resp.status = StatusCreated =>
            \E id \in AccountsOf(resp.input.email) : resp.body.id = UUIDString(id)
\* C12: with register requests handled one at a time, a Register with a valid
\* email and password whose email is not registered is answered 201 with
\* exactly the new account's id and email, and creates that one account; a
\* Register whose email is registered is answered 409 and leaves the accounts
\* as they were (storage and hashing calls not failing).
C12_RegisterThenConflict ==
  [][(resp' # Nil /\ resp'.op = "register" /\ ValidCredentials(resp'.input)
        /\ ~resp'.fault) =>
       LET email == resp'.input.email
       IN IF AccountsOf(email) = {}
            THEN /\ resp'.status = StatusCreated
                 /\ \E id \in DOMAIN users' \ DOMAIN users :
                       /\ DOMAIN users' = DOMAIN users \cup {id}
                       /\ users'[id].Email = email
                       /\ VerifyPassword(resp'.input.password, users'[id].PasswordHash)
                       /\ resp'.body = [id |-> UUIDString(id), email |-> email]
                 /\ \A id \in DOMAIN users : users'[id] = users[id]
            ELSE /\ resp'.status = StatusConflict
                 /\ users' = users]_vars

\* C12 witness: a Register for a registered email, sent with another
\* password, was answered 409 while the account keeps its first password
C12_Witness ==
  /\ resp # Nil /\ resp.op = "register" /\ resp.status = StatusConflict
  /\ ValidCredentials(resp.input)
  /\ \E id \in AccountsOf(resp.input.email) :
        ~VerifyPassword(resp.input.password, users[id].PasswordHash)
\* a token of the given type for the given account: from the second it was
\* issued in, it validates for that type to that account's id
Carries(token, tokenType, id) ==
  validateToken(token, tokenType, token.claims.NotBefore) = [ok |-> TRUE, userID |-> id]

\* C14: Login (its storage call not failing) answers 200 with a token pair
\* exactly when an account with the email exists and the password verifies
\* against its stored hash; both tokens then validate to that account's id;
\* an unknown email and a wrong password get the same 401 code and message,
\* and no response other than the 200 carries a token.
C14_LoginIffCredentials ==
  (resp # Nil /\ resp.op = "login" /\ ~resp.fault) =>
    LET matching == {id \in AccountsOf(resp.input.email) :
                       VerifyPassword(resp.input.password, users[id].PasswordHash)}
    IN /\ resp.status = StatusOK <=> (resp.input.json /\ matching # {})
       /\ resp.status = StatusOK =>
            \E id \in matching :
              /\ Carries(resp.body.accessToken, "access", id)
              /\ Carries(resp.body.refreshToken, "refresh", id)
              /\ resp.body.user.id = UUIDString(id)
       /\ (resp.input.json /\ resp.input.email # "" /\ resp.input.password # ""
             /\ matching = {}) =>
            /\ resp.status = StatusUnauthorized
            /\ resp.code = "ErrCodeInvalidCredentials"
            /\ resp.message = "Invalid email or password"
       /\ resp.status # StatusOK => resp.body = Nil

\* C14 witness: with two accounts registered, a login to the second one was
\* answered 200
C14_Witness ==
  /\ resp # Nil /\ resp.op = "login" /\ resp.status = StatusOK
  /\ Cardinality(DOMAIN users) = 2
  /\ resp.body.user.id = UUIDString("u2")
\* C15: Refresh answers 200 with a new token pair only for a token that
\* validates as refresh-type at that time and whose subject is an existing
\* account, and both new tokens carry that subject; an access token, an
\* expired token and a token whose signature is not the service's are
\* answered 401; no response other than the 200 carries a token.
C15_RefreshOnlyValidRefresh ==
  (resp # Nil /\ resp.op = "refresh") =>
    LET token == resp.input.refreshToken
        subject == UUIDParse(token.claims.UserID)
    IN /\ resp.status = StatusOK =>
            /\ resp.input.json
            /\ token.claims.TokenType = "refresh"
            /\ validateToken(token, "refresh", resp.at).ok
            /\ subject.ok /\ subject.id \in DOMAIN users
            /\ Carries(resp.body.accessToken, "access", subject.id)
            /\ Carries(resp.body.refreshToken, "refresh", subject.id)
       /\ (/\ resp.input.json /\ token # EmptyToken
           /\ \/ token.claims.TokenType = "access"
              \/ resp.at >= token.claims.ExpiresAt
              \/ token.sig # Sign(token.alg, token.claims, JwtSecret)) =>
            resp.status = StatusUnauthorized
       /\ resp.status # StatusOK => resp.body = Nil

\* C15 witness: with two accounts registered, the second account's refresh
\* token, presented after the second it was issued in, was exchanged for a
\* new pair
C15_Witness ==
  /\ resp # Nil /\ resp.op = "refresh" /\ resp.status = StatusOK
  /\ Cardinality(DOMAIN users) = 2
  /\ resp.input.refreshToken.claims.UserID = UUIDString("u2")
  /\ resp.at >= resp.input.refreshToken.claims.IssuedAt + TicksPerSecond
\* C16: the Me handler behind AuthMiddleware runs exactly when the
\* Authorization header is "Bearer " followed by a token that validates as
\* access-type; a missing header, another scheme, a refresh token, an expired
\* token and a token not signed by the service are answered 401 with neither
\* the handler nor the account store invoked; an account the handler returns
\* is the one whose id is the token's subject.
C16_BearerAccessOnly ==
  (resp # Nil /\ resp.op = "me") =>
    LET header == resp.input
        token == header.token
        subject == UUIDParse(token.claims.UserID)
    IN /\ resp.handlerRan <=>
            (header.scheme = "Bearer " /\ validateToken(token, "access", resp.at).ok)
       /\ (\/ header.scheme # "Bearer "
           \/ token.claims.TokenType = "refresh"
           \/ resp.at >= token.claims.ExpiresAt
           \/ token.sig # Sign(token.alg, token.claims, JwtSecret)) =>
            /\ resp.status = StatusUnauthorized
            /\ ~resp.handlerRan
            /\ resp.storeCalls = 0
       /\ ~resp.handlerRan => (resp.status = StatusUnauthorized /\ resp.storeCalls = 0)
       /\ (resp.handlerRan /\ resp.status = StatusOK) =>
            /\ subject.ok /\ subject.id \in DOMAIN users
            /\ resp.body.id = UUIDString(subject.id)
            /\ resp.body.email = users[subject.id].Email

\* C16 witness: with two accounts registered, the second account's access
\* token in a Bearer header got the second account back
C16_Witness ==
  /\ resp # Nil /\ resp.op = "me" /\ resp.handlerRan /\ resp.status = StatusOK
  /\ Cardinality(DOMAIN users) = 2
  /\ resp.body.id = UUIDString("u2")
\* C17: for every CheckRateLimit call that incremented the counter of a key
\* with limit L, Remaining is max(0, L - N) for the call's position N in its
\* window: L - N up to the Lth call, 0 on the Lth and on every later one,
\* never negative.
C17_RemainingClamped ==
  \A p \in Procs :
    Counted(p) =>
      LET L == apiKeys[req[p].rec.ID].RateLimit
          N == req[p].ordinal
      IN /\ req[p].result.Limit = L
         /\ req[p].result.Remaining >= 0
         /\ N < L => req[p].result.Remaining = L - N
         /\ N >= L => req[p].result.Remaining = 0

\* C17 witness: in one window one call found one request remaining and a
\* call beyond the limit found none
C17_Witness ==
  \E p, q \in Procs :
    /\ Counted(p) /\ Counted(q)
    /\ req[p].rec.ID = req[q].rec.ID /\ req[p].windowStart = req[q].windowStart
    /\ req[p].ordinal = 1 /\ req[p].result.Remaining = req[p].rec.RateLimit - 1
    /\ req[p].result.Remaining > 0
    /\ req[q].ordinal > req[q].rec.RateLimit /\ req[q].result.Remaining = 0

CounterRows ==
  {[api_key_id |-> key[1], window_start |-> key[2],
    request_count |-> rateLimitRecords[key]] : key \in DOMAIN rateLimitRecords}

\* C20: in every reachable state there is at most one counter row for each
\* (API key id, window start), and every row's window start is a multiple
\* of its key's window length.
C20_OneAlignedRowPerWindow ==
  /\ \A r1, r2 \in CounterRows :
        (r1.api_key_id = r2.api_key_id /\ r1.window_start = r2.window_start) => r1 = r2
  /\ \A r \in CounterRows :
        /\ r.api_key_id \in DOMAIN apiKeys
        /\ r.window_start % apiKeys[r.api_key_id].RateWindowSeconds = 0

\* C20 witness: a key has rows for two windows, one of them incremented by
\* two concurrent calls
C20_Witness ==
  \E r1, r2 \in CounterRows :
    /\ r1.api_key_id = r2.api_key_id /\ r1.window_start # r2.window_start
    /\ r1.request_count >= 2
    /\ \E p, q \in Procs :
          /\ p # q /\ Counted(p) /\ Counted(q)
          /\ req[p].rec.ID = r1.api_key_id /\ req[q].rec.ID = r1.api_key_id
          /\ req[p].windowStart = r1.window_start
          /\ req[q].windowStart = r1.window_start
\* C19: for every check time at or after the epoch and every window length
\* W >= 1, the window start is floor(now / W) * W: a multiple of W with
\* windowStart <= now < windowStart + W, and the reset time is
\* windowStart + W.
C19_WindowAligned ==
  win # Nil =>
    /\ win.windowStart % win.windowSeconds = 0
    /\ win.windowStart <= win.currentUnix
    /\ win.currentUnix < win.windowStart + win.windowSeconds
    /\ win.resetTime = win.windowStart + win.windowSeconds
    /\ win.resetTime > win.currentUnix

\* C19 witness: a check time strictly inside a window that is not the first
C19_Witness ==
  /\ win # Nil
  /\ win.windowSeconds > 1
  /\ win.windowStart > 0
  /\ win.windowStart < win.currentUnix
  /\ win.currentUnix < win.resetTime - 1
\* ------------------------------------------------------------------ C21
\* C21: the last-used update started by CheckRateLimit never changes an
\* outcome and is never waited for: the call returns in the step that starts
\* the update, with the update still pending; its result is the one computed
\* from the new count and the record read at lookup; and the update itself,
\* whether it succeeds or fails, and whenever it runs, changes no counter, no
\* request and nothing of any key but the last-used time of its own
C21_LastUsedDetached ==
  [][/\ \A p \in Procs :
          (~Counted(p) /\ Counted(p)') =>
             LET r == req'[p]
                 n == rateLimitRecords'[<<r.rec.ID, r.windowStart>>]
             IN /\ r.rec.ID \in lastUsedJobs'
                /\ r.result = [Allowed |-> n <= r.rec.RateLimit,
                               Limit |-> r.rec.RateLimit,
                               Remaining |-> IF n > r.rec.RateLimit THEN 0
                                             ELSE r.rec.RateLimit - n,
                               ResetTime |-> r.windowStart + r.rec.RateWindowSeconds]
     /\ (\E id \in lastUsedJobs : id \notin lastUsedJobs') =>
          /\ rateLimitRecords' = rateLimitRecords
          /\ req' = req
          /\ hist' = hist
          /\ now' = now
          /\ DOMAIN apiKeys' = DOMAIN apiKeys
          /\ \A id \in DOMAIN apiKeys :
                /\ [apiKeys'[id] EXCEPT !.LastUsedAt = Nil]
                     = [apiKeys[id] EXCEPT !.LastUsedAt = Nil]
                /\ id \in lastUsedJobs' => apiKeys'[id] = apiKeys[id]]_vars

\* two calls for one key have returned, an update ran between them, and the
\* update of the second is still pending after the key was deleted
C21_Witness ==
  \E p \in Procs, q \in Procs :
    /\ p # q
    /\ Counted(p) /\ Counted(q)
    /\ req[p].rec.ID = req[q].rec.ID
    /\ req[p].rec.ID \in lastUsedJobs
    /\ apiKeys[req[p].rec.ID].LastUsedAt.Valid
    /\ ~apiKeys[req[p].rec.ID].IsActive

\* ------------------------------------------------------------------ C22
\* C22: CheckRateLimit reports an error exactly when the key lookup or the
\* counter increment reported a storage error; the failing call creates and
\* increments no counter and starts no last-used update, and the middleware
\* answers 500 without invoking the handler
C22_StorageErrorIs500 ==
  [][\A p \in Procs :
       (req'[p] # req[p] /\ req'[p].checked /\ req'[p].pc \in {"retry", "done"}
          /\ req[p].pc # "retry") =>
         /\ req'[p].err <=> req'[p].fault # "none"
         /\ req'[p].fault # "none" =>
              /\ rateLimitRecords' = rateLimitRecords
              /\ lastUsedJobs' = lastUsedJobs
              /\ hist' = hist
              /\ req'[p].ordinal = 0
              /\ req'[p].result = Nil
              /\ req'[p].status = StatusInternalServerError
              /\ req'[p].code = "INTERNAL_ERROR"
              /\ ~req'[p].served
              /\ req'[p].pc = "done"
              /\ req'[p].fault = "lookup" <=> req'[p].rec = Nil]_vars

\* one request failed at the lookup and another at the increment, while a
\* counter of the key exists
C22_Witness ==
  \E p \in Procs, q \in Procs :
    /\ req[p].fault = "lookup" /\ req[p].pc = "done"
    /\ req[q].fault = "increment" /\ req[q].pc = "done"
    /\ \E k \in DOMAIN rateLimitRecords : k[1] = req[q].rec.ID

\* ------------------------------------------------------------------ C27
\* the request p makes its key lookup in this step, and the lookup succeeds
LooksUp(p) ==
  /\ req[p].pc \in {"idle", "done"}
  /\ started' = started + 1
  /\ req'[p] # req[p]
  /\ req'[p].checked /\ ~req'[p].err
  /\ \A q \in Procs \ {p} : req'[q] = req[q]

\* C27: CreateAPIKey with a non-empty name answers 201 with a plaintext key
\* and stores an active record whose limit and window are the requested
\* values when positive and 100 and 60 otherwise; while that record is
\* active, a CheckRateLimit call with the plaintext key resolves to it and
\* reports its limit; with an empty name the answer is 400 and no key is
\* created
C27_CreatedKeyResolves ==
  [][/\ (createResp' # Nil /\ createResp'.input.json /\ ~createResp'.fault) =>
          LET asked == createResp'.input
              out == createResp'.body
          IN IF asked.name = ""
               THEN createResp'.status = StatusBadRequest /\ apiKeys' = apiKeys
               ELSE /\ createResp'.status = StatusCreated
                    /\ out.apiKey \in RawKeys
                    /\ out.id \notin DOMAIN apiKeys
                    /\ DOMAIN apiKeys' = DOMAIN apiKeys \cup {out.id}
                    /\ \A id \in DOMAIN apiKeys : apiKeys'[id] = apiKeys[id]
                    /\ GeneratedKeys[out.id] = out.apiKey
                    /\ apiKeys'[out.id].IsActive
                    /\ apiKeys'[out.id].RateLimit =
                         (IF asked.rateLimit > 0 THEN asked.rateLimit ELSE 100)
                    /\ apiKeys'[out.id].RateWindowSeconds =
                         (IF asked.rateWindowSeconds > 0 THEN asked.rateWindowSeconds
                          ELSE 60)
                    /\ out.rateLimit = apiKeys'[out.id].RateLimit
     /\ \A p \in Procs, id \in DOMAIN apiKeys :
          (LooksUp(p) /\ apiKeys[id].IsActive /\ req'[p].apiKey = GeneratedKeys[id]) =>
             /\ req'[p].pc = "increment"
             /\ req'[p].rec.ID = id
             /\ req'[p].rec.RateLimit = apiKeys[id].RateLimit
     /\ \A p \in Procs :
          (~Counted(p) /\ Counted(p)') =>
             /\ req'[p].result.Limit = apiKeys[req'[p].rec.ID].RateLimit
             /\ req'[p].apiKey = GeneratedKeys[req'[p].rec.ID]]_vars

\* a key created without a limit and a window is still active, and a call
\* with its plaintext key returned the default limit and window
C27_Witness ==
  \E p \in Procs :
    /\ Counted(p)
    /\ req[p].apiKey = GeneratedKeys[req[p].rec.ID]
    /\ apiKeys[req[p].rec.ID].IsActive
    /\ apiKeys[req[p].rec.ID].Name = "svc"
    /\ req[p].result.Limit = DefaultRateLimit
    /\ req[p].result.ResetTime = DefaultRateWindowSeconds

\* ------------------------------------------------------------------ C28
\* C28: deactivation is soft and irreversible: no step removes a key record
\* or a counter row, no step makes an inactive key active or changes its
\* configuration, a delete changes nothing but is_active, and every
\* CheckRateLimit call whose lookup comes after the delete returns the
\* not-found result (Allowed false, Limit 0) and touches no counter
C28_SoftIrreversibleDelete ==
  [][/\ \A id \in DOMAIN apiKeys :
          /\ id \in DOMAIN apiKeys'
          /\ [apiKeys'[id] EXCEPT !.IsActive = TRUE, !.LastUsedAt = Nil]
               = [apiKeys[id] EXCEPT !.IsActive = TRUE, !.LastUsedAt = Nil]
          /\ ~apiKeys[id].IsActive => ~apiKeys'[id].IsActive
          /\ (apiKeys[id].IsActive /\ ~apiKeys'[id].IsActive) =>
               /\ apiKeys'[id].LastUsedAt = apiKeys[id].LastUsedAt
               /\ rateLimitRecords' = rateLimitRecords
               /\ req' = req /\ lastUsedJobs' = lastUsedJobs
     /\ \A k \in DOMAIN rateLimitRecords :
          k \in DOMAIN rateLimitRecords' /\ rateLimitRecords'[k] >= rateLimitRecords[k]
     /\ \A p \in Procs, id \in DOMAIN apiKeys :
          (LooksUp(p) /\ ~apiKeys[id].IsActive /\ req'[p].apiKey = GeneratedKeys[id]) =>
             /\ req'[p].pc = "done"
             /\ ~req'[p].result.Allowed /\ req'[p].result.Limit = 0
             /\ ~req'[p].served
             /\ rateLimitRecords' = rateLimitRecords]_vars

\* a deleted key whose counter rows are still there, and a call made after a
\* last-used update of that key (so after its creation) that got the
\* not-found result
C28_Witness ==
  \E p \in Procs, id \in DOMAIN apiKeys :
    /\ ~apiKeys[id].IsActive
    /\ \E k \in DOMAIN rateLimitRecords : k[1] = id /\ rateLimitRecords[k] >= 1
    /\ apiKeys[id].LastUsedAt.Valid
    /\ req[p].pc = "done" /\ req[p].checked /\ ~req[p].err
    /\ req[p].apiKey = GeneratedKeys[id]
    /\ req[p].ordinal = 0
    /\ req[p].result.Limit = 0 /\ ~req[p].result.Allowed
    /\ req[p].result.ResetTime > apiKeys[id].LastUsedAt.Time

\* ------------------------------------------------------------------ C23
\* C23: no operation invalidates a token early. After any sequence of
\* register, login, refresh and me requests, a refresh token the service
\* signed for a registered account is exchanged for a new pair whenever it is
\* presented before its expiry, however often it was used before and whatever
\* was issued since, and an access token the service signed for a registered
\* account passes the bearer check before its expiry
C23_TokensLiveUntilExpiry ==
  resp # Nil =>
    /\ (/\ resp.op = "refresh" /\ resp.input.json /\ ~resp.fault
        /\ \E u \in DOMAIN users, t \in 0..resp.at :
              resp.input.refreshToken = generateToken(u, "refresh", RefreshTokenTTL, t)
        /\ resp.at < resp.input.refreshToken.claims.ExpiresAt) =>
          /\ resp.status = StatusOK
          /\ resp.body.refreshToken.claims.UserID = resp.input.refreshToken.claims.UserID
    /\ (/\ resp.op = "me" /\ resp.input.scheme = "Bearer " /\ ~resp.fault
        /\ \E u \in DOMAIN users, t \in 0..resp.at :
              resp.input.token = generateToken(u, "access", AccessTokenTTL, t)
        /\ resp.at < resp.input.token.claims.ExpiresAt) =>
          /\ resp.handlerRan
          /\ resp.status = StatusOK

\* a refresh token was exchanged twice in a row, the second time after the
\* first exchange had issued a newer refresh token
C23_Witness ==
  /\ resp # Nil /\ resp.op = "refresh" /\ resp.status = StatusOK
  /\ resp.repeat
  /\ resp.input.refreshToken.claims.IssuedAt < NumericDate(resp.at)
  /\ resp.body.refreshToken # resp.input.refreshToken

\* ------------------------------------------------------------------ C25
\* C25: whenever a storage or hashing call fails inside Register, Login,
\* Refresh, Me, the rate-limit check or CreateAPIKey, the response is 500
\* with the generic internal-error code and one of the fixed messages
C25_FailureIsInternalError ==
  /\ (resp # Nil /\ resp.fault) =>
        /\ resp.status = StatusInternalServerError
        /\ resp.code = "INTERNAL_ERROR"
        /\ resp.message \in {"Failed to check existing user", "Failed to hash password",
                              "Failed to create user", "Failed to find user",
                              "Failed to get user"}
  /\ \A p \in Procs :
        req[p].fault # "none" =>
          req[p].status = StatusInternalServerError /\ req[p].code = "INTERNAL_ERROR"
  /\ (createResp # Nil /\ createResp.fault) =>
        createResp.status = StatusInternalServerError /\ createResp.code = "INTERNAL_ERROR"

\* ------------------------------------------------------------------ C26
\* C26: Register answers 400 to an empty email, an email without '@', an
\* empty password and a password shorter than 8 characters, and in doing so
\* reads and writes nothing of the account store; a password of exactly 8
\* characters with a valid email is not refused
C26_RegisterValidation ==
  [][(resp' # Nil /\ resp'.op = "register" /\ resp'.input.json) =>
       LET b == resp'.input
           bad == b.email \in {"", "nomail"} \/ b.password \in {"", "1234567"}
       IN /\ bad =>
            /\ resp'.status = StatusBadRequest
            /\ resp'.code = "VALIDATION_FAILED"
            /\ resp'.storeCalls = 0
            /\ users' = users
            /\ reg' = reg
          /\ ~bad =>
            /\ resp'.status # StatusBadRequest
            /\ resp'.storeCalls >= 1]_vars

\* a 7-character password was refused for an email that has an account (a
\* store read would have found it), with a valid email
C26_Witness ==
  /\ resp # Nil /\ resp.op = "register"
  /\ resp.input.email = "a@b.com" /\ resp.input.password = "1234567"
  /\ resp.status = StatusBadRequest
  /\ \E u \in DOMAIN users : users[u].Email = "a@b.com"

\* ------------------------------------------------------------------ C24
\* C24: every error response of a boundary endpoint carries a machine-readable
\* code and a human-readable message: the analyze route answers errors with
\* the JSON error body, and so do the auth endpoints, the rate-limit
\* middleware and key creation
C24_ErrorsCarryCodeAndMessage ==
  /\ \A p \in AProcs : \A i \in 1..Len(an[p].responses) :
        an[p].responses[i].status # StatusOK => an[p].responses[i].type = "json"
  /\ (resp # Nil /\ resp.status >= StatusBadRequest) =>
        resp.code # "" /\ resp.message # ""
  /\ \A p \in Procs : req[p].status >= StatusBadRequest => req[p].code # ""
  /\ (createResp # Nil /\ createResp.status >= StatusBadRequest) =>
        createResp.code # "" /\ createResp.message # ""

\* ------------------------------------------------------------------ C29
\* C29: once the caller has abandoned an analyze request mid-pipeline, the
\* handler starts no further downstream step, and the call that was in
\* flight does not complete with a value
C29_AbandonStopsPipeline ==
  \A p \in AProcs :
    an[p].abandonedAt > 0 =>
      \A i \in (an[p].abandonedAt + 1)..Len(an[p].events) :
        /\ an[p].events[i].kind # "call"
        /\ ~(an[p].events[i].kind = "return" /\ an[p].events[i].ok)

C31_InvalidBodyNoDownstream ==
  [][\A p \in AProcs :
       /\ an'[p].events # << >> =>
            an'[p].region # "" /\ an'[p].gameName # "" /\ an'[p].tagLine # ""
       /\ (an[p].pc = "idle" /\ an'[p].pc # "idle") =>
            IF an'[p].region = "" \/ an'[p].gameName = "" \/ an'[p].tagLine = ""
              THEN /\ an'[p].pc = "done"
                   /\ an'[p].events = << >>
                   /\ Len(an'[p].responses) = 1
                   /\ an'[p].responses[1].status = StatusBadRequest
              ELSE /\ Len(an'[p].events) = 1
                   /\ an'[p].events[1].kind = "call"
                   /\ an'[p].responses = << >>
       /\ \A i \in 1..Len(an'[p].responses) :
            an'[p].responses[i].status = StatusBadRequest => an'[p].events = << >>]_vars

\* a matches request and an analyze request were both answered 400 without
\* a downstream call
C31_Witness ==
  \E p \in AProcs, q \in AProcs :
    /\ an[p].route = "matches" /\ an[q].route = "analyze"
    /\ an[p].pc = "done" /\ an[q].pc = "done"
    /\ an[p].events = << >> /\ an[q].events = << >>
    /\ an[p].responses[1].status = StatusBadRequest
    /\ an[q].responses[1].status = StatusBadRequest

\* ------------------------------------------------------------------ C32
Min(a, b) == IF a <= b THEN a ELSE b

\* C32: whatever the interleaving, of the K CheckRateLimit calls that have
\* completed their increment on one active key in one window exactly
\* min(K, L) returned Allowed = true, L being the key's limit; a (key,
\* window) never has more than L admitted calls.
C32_ExactlyMinAdmitted ==
  \A key \in DOMAIN tally :
    LET L == apiKeys[key[1]].RateLimit
        K == IF key \in DOMAIN hist THEN Len(hist[key]) ELSE 0
    IN /\ tally[key].admitted = Min(K, L)
       /\ tally[key].admitted <= L

\* C32 witness: three calls have incremented one window of a key with limit
\* two, two were admitted, and the two calls still on record overlapped (a
\* request only takes the second slot while the first is busy)
C32_Witness ==
  \E key \in DOMAIN hist :
    /\ apiKeys[key[1]].RateLimit = 2
    /\ Len(hist[key]) = 3
    /\ tally[key].admitted = 2
    /\ \A p \in {1, 2} :
         Counted(p) /\ <<req[p].rec.ID, req[p].windowStart>> = key
    /\ \E p \in {1, 2} : ~req[p].result.Allowed

\* ------------------------------------------------------------------ C33
\* the stored request_count of a (key, window), zero while it has no row
StoredCount(records, key) == IF key \in DOMAIN records THEN records[key] ELSE 0

\* the calls that have looked the key up and computed the window and have
\* not run their increment yet
InFlight(r, key) ==
  {p \in Procs : r[p].pc = "increment" /\ <<r[p].rec.ID, r[p].windowStart>> = key}

\* C33 as stated: the stored count of a (key, window) equals the number of
\* CheckRateLimit calls that found the key active and computed that window,
\* those that have returned being counted.
C33_CountEqualsLookups ==
  \A key \in DOMAIN tally :
    StoredCount(rateLimitRecords, key) =
      tally[key].found - Cardinality(InFlight(req, key))

\* C33: counter rows are only ever added, by the first increment of their
\* (key, window) and with count 1, and their counts never decrease; the stored
\* count of a (key, window) equals the number of CheckRateLimit calls that
\* found the key active, computed that window and completed their increment,
\* rejected calls included: calls still before their increment and calls
\* whose increment failed are not in it.
C33_CounterRowsOnlyGrow ==
  [][/\ DOMAIN rateLimitRecords \subseteq DOMAIN rateLimitRecords'
     /\ \A key \in DOMAIN rateLimitRecords :
          rateLimitRecords'[key] >= rateLimitRecords[key]
     /\ \A key \in DOMAIN rateLimitRecords' \ DOMAIN rateLimitRecords :
          /\ rateLimitRecords'[key] = 1
          /\ \E p \in InFlight(req, key) : req'[p].ordinal = 1
     /\ \A key \in DOMAIN tally' :
          StoredCount(rateLimitRecords', key) =
            tally'[key].found - tally'[key].failed
              - Cardinality(InFlight(req', key))]_vars

\* C33 witness: the row of one window of a key with limit two holds three,
\* the two admitted calls and the rejected one
C33_Witness ==
  \E key \in DOMAIN rateLimitRecords :
    /\ rateLimitRecords[key] = 3
    /\ apiKeys[key[1]].RateLimit = 2
    /\ tally[key].admitted = 2
    /\ tally[key].found = 3

\* ------------------------------------------------------------------ C34
\* C34: every 429 answer of RateLimitMiddleware and of
\* OptionalRateLimitMiddleware carries a Retry-After that is the number of
\* seconds until the window resets: not negative and not more than the
\* key's window length.
C34_RetryAfterWithinWindow ==
  \A p \in Procs :
    req[p].status = StatusTooManyRequests =>
      /\ req[p].retryAfter >= 0
      /\ req[p].retryAfter <= req[p].rec.RateWindowSeconds

\* ------------------------------------------------------------------ C35
\* C35: a CheckRateLimit call for key A in window w changes only the counter
\* row (A, w) and, through its detached update, A's last-used time: its
\* lookup writes nothing, its increment leaves every other row, every other
\* window of A and every api_keys row as they are and queues a last-used
\* update for A only, and that update changes nothing but A's last_used_at.
\* The decision depends on the row (A, w) and A's limit alone.
C35_OnlyOwnRowAndLastUsed ==
  [][/\ \A p \in Procs :
          /\ (req[p].pc \in {"idle", "done"} /\ req'[p] # req[p]) =>
                rateLimitRecords' = rateLimitRecords /\ apiKeys' = apiKeys
          /\ (req[p].pc = "increment" /\ req'[p].pc # "increment") =>
                LET key == <<req[p].rec.ID, req[p].windowStart>>
                IN /\ \A k \in DOMAIN rateLimitRecords' \ {key} :
                        /\ k \in DOMAIN rateLimitRecords
                        /\ rateLimitRecords'[k] = rateLimitRecords[k]
                   /\ DOMAIN rateLimitRecords \subseteq DOMAIN rateLimitRecords'
                   /\ apiKeys' = apiKeys
                   /\ lastUsedJobs' \ lastUsedJobs \subseteq {key[1]}
                   /\ req'[p].ordinal > 0 =>
                        /\ rateLimitRecords'[key] =
                             StoredCount(rateLimitRecords, key) + 1
                        /\ req'[p].result.Allowed <=>
                             rateLimitRecords'[key] <= apiKeys[key[1]].RateLimit
     /\ \A id \in DOMAIN apiKeys :
          apiKeys'[id] # apiKeys[id] =>
            /\ id \in lastUsedJobs \ lastUsedJobs'
            /\ rateLimitRecords' = rateLimitRecords
            /\ [apiKeys'[id] EXCEPT !.LastUsedAt = apiKeys[id].LastUsedAt] = apiKeys[id]
            /\ \A other \in DOMAIN apiKeys \ {id} : apiKeys'[other] = apiKeys[other]]_vars

\* C35 witness: in one window the second key is over its limit, its call
\* rejected, while a call on the first key is admitted with that key's count
\* at one, and the first key's last-used time has been written
C35_Witness ==
  \E p, q \in Procs :
    /\ Counted(p) /\ req[p].rec.ID = 1 /\ req[p].result.Allowed
    /\ Counted(q) /\ req[q].rec.ID = 2 /\ ~req[q].result.Allowed
    /\ req[p].windowStart = req[q].windowStart
    /\ rateLimitRecords[<<1, req[p].windowStart>>] = 1
    /\ rateLimitRecords[<<2, req[q].windowStart>>] = 2
    /\ apiKeys[1].LastUsedAt.Valid /\ ~apiKeys[2].LastUsedAt.Valid

\* ------------------------------------------------------------------ C36
\* C36: every key CreateAPIKey has stored has a rate limit of at least one
\* and a window of at least one second, a requested value that is zero,
\* negative or absent being replaced by 100 and by 60; so a CheckRateLimit
\* result has Limit = 0 only when the lookup found no active row for the
\* presented key, and every window computation divides by a length of at
\* least one.
C36_CreatedKeysPositive ==
  /\ \A id \in DOMAIN apiKeys :
       apiKeys[id].RateLimit >= 1 /\ apiKeys[id].RateWindowSeconds >= 1
  /\ (createResp # Nil /\ createResp.status = StatusCreated) =>
       /\ createResp.body.rateLimit =
            (IF createResp.input.rateLimit <= 0 THEN DefaultRateLimit
             ELSE createResp.input.rateLimit)
       /\ createResp.body.rateWindowSeconds =
            (IF createResp.input.rateWindowSeconds <= 0 THEN DefaultRateWindowSeconds
             ELSE createResp.input.rateWindowSeconds)
  /\ \A p \in Procs :
       /\ (Returned(p) /\ req[p].result.Limit = 0) =>
            req[p].rec = Nil
       /\ req[p].rec # Nil => req[p].rec.RateWindowSeconds >= 1

\* C36 witness: a key created with no positive limit or window is stored
\* with 100 and 60 and has admitted a request whose result shows the limit
\* 100, while a request with a key that was never issued got Limit = 0
C36_Witness ==
  \E p, q \in Procs, id \in DOMAIN apiKeys :
    /\ apiKeys[id].RateLimit = DefaultRateLimit
    /\ apiKeys[id].RateWindowSeconds = DefaultRateWindowSeconds
    /\ Counted(p) /\ req[p].rec.ID = id /\ req[p].result.Limit = DefaultRateLimit
    /\ Returned(q) /\ req[q].result.Limit = 0 /\ req[q].apiKey = "kb"

\* ------------------------------------------------------------------ C37
DataHandlers == {"GetSummoner", "GetMatches", "AnalyzePlayer"}

\* C37: with a rate limiter, a request reaches GetSummoner, GetMatches or
\* AnalyzePlayer only in the step in which its own CheckRateLimit call
\* incremented its window once and returned Allowed, for a key its lookup had
\* found active, the lookup itself counting nothing; a request matched to
\* any other handler, or to none, never enters CheckRateLimit; without a
\* rate limiter a request to one of the three data routes reaches its
\* handler at once, whatever its X-API-Key header.
C37_DataRoutesBehindLimiter ==
  [][\A p \in Procs :
       (req'[p] # req[p]) =>
         LET h == rt'.handler[p]
             key == <<req[p].rec.ID, req[p].windowStart>>
         IN /\ (rt.config.RateLimiter /\ h \in DataHandlers /\ req'[p].served) =>
                 /\ req[p].pc = "increment"
                 /\ req[p].rec # Nil
                 /\ req'[p].result.Allowed
                 /\ rateLimitRecords'[key] = StoredCount(rateLimitRecords, key) + 1
                 /\ Len(hist'[key]) = req'[p].ordinal
            /\ (rt.config.RateLimiter /\ h \in DataHandlers
                  /\ req[p].pc \in {"idle", "done"}) =>
                 /\ rateLimitRecords' = rateLimitRecords
                 /\ ~req'[p].served
            /\ h \notin DataHandlers =>
                 /\ ~req'[p].checked
                 /\ req'[p].pc = "done"
                 /\ rateLimitRecords' = rateLimitRecords
                 /\ tally' = tally
                 /\ lastUsedJobs' = lastUsedJobs
                 /\ apiKeys' = apiKeys
            /\ (~rt.config.RateLimiter /\ h \in DataHandlers) =>
                 /\ req'[p].served /\ ~req'[p].checked /\ req'[p].pc = "done"
                 /\ rateLimitRecords' = rateLimitRecords]_vars

\* C37 witness: behind a rate limiter one request has reached AnalyzePlayer
\* counted in its window, and an admin request has reached its handler
\* unchecked with no key
C37_Witness ==
  \E p, q \in Procs :
    /\ rt.config.RateLimiter
    /\ rt.handler[p] = "AnalyzePlayer" /\ req[p].served /\ req[p].ordinal = 1
    /\ rt.handler[q] = "CreateAPIKey" /\ req[q].served /\ ~req[q].checked
    /\ req[q].apiKey = ""

\* C37 witness, no database: a data request without a key has reached
\* GetSummoner unchecked
C37_WitnessNoLimiter ==
  \E p \in Procs :
    /\ ~rt.config.RateLimiter
    /\ rt.handler[p] = "GetSummoner" /\ req[p].served /\ ~req[p].checked

\* ------------------------------------------------------------------ C38
\* C38: when every downstream call returns, every AnalyzePlayer request that
\* has started ends with exactly one response written, the analysis result
\* or one error; no request ever has more than one response, or none once
\* it has ended; and a step of one request leaves every other request's
\* locals, calls and responses as they were.
C38_AnalyzeTerminates ==
  /\ \A p \in AProcs :
       (an[p].pc # "idle") ~> (an[p].pc = "done" /\ Len(an[p].responses) = 1)
  /\ [](\A p \in AProcs :
          /\ Len(an[p].responses) <= 1
          /\ an[p].pc = "done" => Len(an[p].responses) = 1)
  /\ [][\A p \in AProcs :
          an'[p] # an[p] => \A q \in AProcs \ {p} : an'[q] = an[q]]_vars

\* C38 witness: two requests have run side by side to their end, one
\* answered with the analysis result after its three calls, the other with
\* the one error of its failed profile lookup
C38_Witness ==
  \E p, q \in AProcs :
    /\ an[p].pc = "done" /\ Len(an[p].responses) = 1
    /\ an[p].responses[1].status = StatusOK /\ Len(an[p].events) = 6
    /\ an[q].pc = "done" /\ Len(an[q].responses) = 1
    /\ an[q].responses[1].status = StatusInternalServerError
    /\ Len(an[q].events) = 2

====
